---------------------------- MODULE Spec2Model ----------------------------
(***************************************************************************)
(* Model of the solar production and financial modelling engine of         *)
(* renewable-analyzer: ROICalculator (server/app/core/roi_calculator.py),   *)
(* SolarCalculator.calculate_annual_output_enhanced                        *)
(* (server/app/core/solar_calculator.py) and the /analyze route            *)
(* (server/app/api/routes.py).                                             *)
(*                                                                         *)
(* Numbers.  The code computes in IEEE doubles.  The model computes in     *)
(* exact rationals <<n, d>> (d > 0, lowest terms), so that a product, a    *)
(* quotient and a comparison are the mathematical ones and only the        *)
(* code's explicit round() calls lose information.  round(x, k) is         *)
(* Python's: to the nearest multiple of 10^-k, a tie going to the even     *)
(* neighbour.  Where the code rounds a product of two program constants    *)
(* (the feed-in tariff) the sign of the double's representation error      *)
(* decides the tie, and the model carries that sign.  <<0, 0>> is None.    *)
(***************************************************************************)
EXTENDS Integers, Sequences, FiniteSets, TLC

(***************************************************************************)
(* Rational arithmetic                                                     *)
(***************************************************************************)
Abs(n) == IF n < 0 THEN -n ELSE n

RECURSIVE GCD(_, _)
GCD(a, b) == IF b = 0 THEN a ELSE GCD(b, a % b)

Rat(n, d) ==
    LET g == GCD(Abs(n), d) IN <<n \div g, d \div g>>

None == <<0, 0>>

IsNone(x) == x[2] = 0

RMul(x, y) ==
    LET g1 == GCD(Abs(x[1]), y[2])
        g2 == GCD(Abs(y[1]), x[2])
    IN  <<(x[1] \div g1) * (y[1] \div g2), (x[2] \div g2) * (y[2] \div g1)>>

RDiv(x, y) ==
    IF y[1] > 0 THEN RMul(x, <<y[2], y[1]>>) ELSE RMul(x, <<-y[2], -y[1]>>)

RAdd(x, y) ==
    LET g == GCD(x[2], y[2])
    IN  Rat(x[1] * (y[2] \div g) + y[1] * (x[2] \div g), (x[2] \div g) * y[2])

RNeg(x) == <<-x[1], x[2]>>

RSub(x, y) == RAdd(x, RNeg(y))

(* x - y has the sign of RCmp(x, y); common factors are cancelled before   *)
(* the cross-multiplication                                                *)
RCmp(x, y) ==
    LET g  == GCD(x[2], y[2])
        h0 == GCD(Abs(x[1]), Abs(y[1]))
        h  == IF h0 = 0 THEN 1 ELSE h0
    IN  (x[1] \div h) * (y[2] \div g) - (y[1] \div h) * (x[2] \div g)

RLt(x, y) == RCmp(x, y) < 0

RLe(x, y) == RCmp(x, y) <= 0

RMin(x, y) == IF RLe(x, y) THEN x ELSE y

RMax(x, y) == IF RLe(x, y) THEN y ELSE x

RAbs(x) == <<Abs(x[1]), x[2]>>

Num(n) == <<n, 1>>

Zero == <<0, 1>>

Pow10(k) == CASE k = 0 -> 1 [] k = 1 -> 10 [] k = 2 -> 100 [] k = 3 -> 1000 [] k = 4 -> 10000
                 [] k = 5 -> 100000

(* <<q, m>> with r * b = q * c + m and 0 <= m < c, for 0 <= r < c and      *)
(* b > 0: directly when r * b is in range, else by halving b, so that no   *)
(* intermediate value exceeds 3 * c.                                       *)
RECURSIVE MulDivMod(_, _, _)
MulDivMod(r, b, c) ==
    IF r <= 2147483647 \div b THEN <<(r * b) \div c, (r * b) % c>>
    ELSE LET h == MulDivMod(r, b \div 2, c)
             m == 2 * h[2] + (b % 2) * r
         IN  <<2 * h[1] + m \div c, m % c>>

(* round(x, k) of a double whose value is x + err * epsilon: err is the    *)
(* sign of the representation error and matters on a decimal tie only.     *)
PyRoundErr(x, k, err) ==
    LET md  == MulDivMod(x[1] % x[2], Pow10(k), x[2])
        q   == (x[1] \div x[2]) * Pow10(k) + md[1]
        rem == md[2]
        up  == \/ x[2] < 2 * rem
               \/ /\ x[2] = 2 * rem
                  /\ \/ err > 0
                     \/ err = 0 /\ q % 2 = 1
    IN  IF up THEN Rat(q + 1, Pow10(k)) ELSE Rat(q, Pow10(k))

PyRound(x, k) == PyRoundErr(x, k, 0)

(* The quotient (big + m / c) / d, for 0 <= m < c, rounded half-even to an *)
(* integer: its floor is big \div d and the remainder is                   *)
(* (big % d) + m / c.                                                      *)
RoundQuotient(big, m, c, d) ==
    LET q    == big \div d
        r    == big % d
        more == \/ 2 * r > d
                \/ 2 * r = d /\ m > 0
                \/ 2 * r = d - 1 /\ 2 * m > c
        tie  == \/ 2 * r = d /\ m = 0
                \/ 2 * r = d - 1 /\ 2 * m = c
    IN  IF more \/ (tie /\ q % 2 = 1) THEN q + 1 ELSE q

(* The rational a / c times b, as <<big, m>> with a * b = big * c + m *)
ScaledParts(a, b, c) ==
    LET md == MulDivMod(a % c, b, c)
    IN  <<(a \div c) * b + md[1], md[2]>>

(* round(x * num / den, k) for integers num, den > 0, without forming the  *)
(* exact product, whose terms may be out of range: x * num * 10^k / den =  *)
(* (a * b) / (c * d) in lowest terms.                                      *)
PyRoundScaledBy(x, y, k) ==
    LET g1    == GCD(Abs(x[1]), y[2])
        g2    == GCD(y[1], x[2])
        parts == ScaledParts(x[1] \div g1, y[1] \div g2, x[2] \div g2)
    IN  Rat(RoundQuotient(parts[1], parts[2], x[2] \div g2, y[2] \div g1), Pow10(k))

PyRoundScaled(x, num, den, k) == PyRoundScaledBy(x, Rat(num * Pow10(k), den), k)

(***************************************************************************)
(* Decimal fixed-point arithmetic for the price-dependent figures, whose   *)
(* exact values do not fit a quotient of two machine integers.  A Dec is   *)
(* <<i2, i1, f1, f2, f3>> and stands for                                   *)
(*   i2 * 10^5 + i1 + f1 * 10^-5 + f2 * 10^-10 + f3 * 10^-15,              *)
(* with 0 <= i1, f1, f2, f3 < 10^5 and i2 any integer (negative for a      *)
(* negative value).  Sums, differences and products by a decimal of at     *)
(* most 15 places are exact.                                               *)
(***************************************************************************)
Base == 100000

DecNorm(x) ==
    LET c4 == x[4] + x[5] \div Base
        c3 == x[3] + c4 \div Base
        c2 == x[2] + c3 \div Base
    IN  <<x[1] + c2 \div Base, c2 % Base, c3 % Base, c4 % Base, x[5] % Base>>

DecZero == <<0, 0, 0, 0, 0>>

DecAdd(x, y) == DecNorm(<<x[1] + y[1], x[2] + y[2], x[3] + y[3], x[4] + y[4], x[5] + y[5]>>)

DecSub(x, y) == DecNorm(<<x[1] - y[1], x[2] - y[2], x[3] - y[3], x[4] - y[4], x[5] - y[5]>>)

(* x * k for an integer k, |k| <= 10^4 *)
DecMulInt(x, k) == DecNorm(<<x[1] * k, x[2] * k, x[3] * k, x[4] * k, x[5] * k>>)

DecNeg(x) == DecMulInt(x, -1)

(* x / 10^5, the digits below 10^-15 dropped *)
DecShiftRight(x) == <<x[1] \div Base, x[1] % Base, x[2], x[3], x[4]>>

(* -1, 0 or 1: the sign of x *)
DecSign(x) == IF x[1] < 0 THEN -1 ELSE IF x = DecZero THEN 0 ELSE 1

(* x < y, limb by limb from the most significant *)
DecLt(x, y) ==
    IF x[1] # y[1] THEN x[1] < y[1]
    ELSE IF x[2] # y[2] THEN x[2] < y[2]
    ELSE IF x[3] # y[3] THEN x[3] < y[3]
    ELSE IF x[4] # y[4] THEN x[4] < y[4]
    ELSE x[5] < y[5]

DecAbs(x) == IF x[1] < 0 THEN DecNeg(x) ELSE x

(* The rational x as a Dec (exact when x has at most 15 decimal places) *)
DecFromRat(x) ==
    LET f1 == MulDivMod(x[1] % x[2], Base, x[2])
        f2 == MulDivMod(f1[2], Base, x[2])
        f3 == MulDivMod(f2[2], Base, x[2])
    IN  DecNorm(<<0, x[1] \div x[2], f1[1], f2[1], f3[1]>>)

(* The number of decimal places of the rational y, at most 5 *)
DecimalPlaces(y) ==
    IF 1 % y[2] = 0 THEN 0 ELSE IF 10 % y[2] = 0 THEN 1 ELSE IF 100 % y[2] = 0 THEN 2
    ELSE IF 1000 % y[2] = 0 THEN 3 ELSE IF 10000 % y[2] = 0 THEN 4 ELSE 5

(* x * n / 10^k for an integer n, |n| <= 10^4, and 0 <= k <= 5 *)
DecMulDecimal(x, n, k) ==
    IF k = 0 THEN DecMulInt(x, n)
    ELSE DecShiftRight(DecMulInt(DecMulInt(x, n), Pow10(5 - k)))

(* x * y for a rational y of at most 5 decimal places and |y| <= 1 *)
DecMulRat(x, y) ==
    DecMulDecimal(x, y[1] * (Pow10(DecimalPlaces(y)) \div y[2]), DecimalPlaces(y))

(* One binary digit of a quotient: from qr = <<q, r>> with r < 2 * d to    *)
(* <<2 * q + b, r - b * d>> with 0 <= r - b * d < d                        *)
DecBit(qr, d) ==
    IF DecLt(qr[2], d) THEN <<2 * qr[1], qr[2]>>
    ELSE <<2 * qr[1] + 1, DecSub(qr[2], d)>>

(* <<q, r>> with n = q * d + r and 0 <= r < d, for n >= 0 and d > 0: long  *)
(* division, one hexadecimal digit of q at a time                          *)
RECURSIVE DecDivMod(_, _)
DecDivMod(n, d) ==
    IF DecLt(n, d) THEN <<0, n>>
    ELSE DecBit(DecBit(DecBit(DecBit(DecDivMod(n, DecMulInt(d, 16)),
                                     DecMulInt(d, 8)),
                              DecMulInt(d, 4)),
                       DecMulInt(d, 2)),
                d)

(* qr[1] + qr[2] / d, the quotient and remainder of a division by d,       *)
(* rounded to an integer as round() rounds the double that holds the       *)
(* quotient: err is the sign of that double minus the exact quotient and   *)
(* matters on a tie only.                                                  *)
DecRoundDivAbs(qr, d, err) ==
    LET twice == DecAdd(qr[2], qr[2])
    IN  IF \/ DecLt(d, twice)
           \/ twice = d /\ (err > 0 \/ (err = 0 /\ qr[1] % 2 = 1))
        THEN qr[1] + 1
        ELSE qr[1]

(* n / d for d > 0, rounded half-even to an integer *)
DecRoundDiv(n, d) ==
    IF n[1] < 0 THEN -DecRoundDivAbs(DecDivMod(DecNeg(n), d), d, 0)
    ELSE DecRoundDivAbs(DecDivMod(n, d), d, 0)

(* x >= 0 with x[1] < 20000, rounded to an integer; err as above *)
DecRoundAbs(x, err) ==
    LET q    == x[1] * Base + x[2]
        half == <<0, 0, 50000, 0, 0>>
        frac == <<0, 0, x[3], x[4], x[5]>>
    IN  IF \/ DecLt(half, frac)
           \/ frac = half /\ (err > 0 \/ (err = 0 /\ q % 2 = 1))
        THEN q + 1
        ELSE q

(* round(x, k) for 0 <= k <= 4 of a double of absolute value               *)
(* |x| + err * epsilon                                                     *)
DecRoundErr(x, k, err) ==
    IF x[1] < 0 THEN Rat(-DecRoundAbs(DecMulInt(DecNeg(x), Pow10(k)), err), Pow10(k))
    ELSE Rat(DecRoundAbs(DecMulInt(x, Pow10(k)), err), Pow10(k))

(***************************************************************************)
(* The stored electricity price (electricity_price.py)                     *)
(***************************************************************************)
VARIABLES
    electricity_price_config, \* electricity_price_eur_per_kwh of the config
                              \* file; None while the file does not exist,
                              \* Truncated while it is open for writing
    price_update              \* the update each of the update paths has under
                              \* way, and how its last run ended

(* The config file between open(CONFIG_PATH, 'w') and json.dump, lines     *)
(* 40-41: it exists and is empty                                           *)
Truncated == <<2, 0>>

(* lines 10-21: the price of the file; 0.34 when the file is missing or    *)
(* json.load raises                                                        *)
get_electricity_price ==
    IF electricity_price_config = None \/ electricity_price_config = Truncated
    THEN Rat(34, 100)
    ELSE electricity_price_config

(* lines 66-91 of fetch_live_electricity_price, for the latest price of    *)
(* the API in EUR/MWh; None when the request failed or held no price        *)
fetch_live_electricity_price(latest_price_raw) ==
    IF IsNone(latest_price_raw) THEN None
    ELSE LET household_price == RMul(RDiv(latest_price_raw, Num(1000)), Rat(35, 10))
         IN  PyRound(IF RLt(household_price, Rat(20, 100)) THEN Rat(30, 100)
                     ELSE IF RLt(Rat(50, 100), household_price) THEN Rat(40, 100)
                     ELSE household_price, 4)

(* The callers of update_electricity_price: the manual endpoint, the live  *)
(* endpoint, the background updater thread and update_price_from_api       *)
UpdatePaths == {"manual", "live", "periodic", "api"}

(* A path with no update under way; result tells how its last run ended:   *)
(* "" not run yet, "200" or "503" for an endpoint, "True" or "False" for   *)
(* update_price_from_api, "sleep" for the updater thread                    *)
NoUpdate(result) == [pc |-> "idle", new_price |-> None, replaced |-> None, result |-> result]

(* routes.py lines 181 and 198: if price is not None *)
price_is_not_none_or_failed(price) == TRUE

price_is_not_none(price) == ~IsNone(price)

(* electricity_price.py line 131: if live_price *)
live_price_is_truthy(live_price) == ~IsNone(live_price) /\ live_price # Zero

(***************************************************************************)
(* ROICalculator (roi_calculator.py)                                       *)
(***************************************************************************)
system_cost_per_kw == 1800

system_lifetime == 25

get_location_specific_factors(location) ==
    CASE location = "Berlin"  -> [incentive_multiplier |-> Rat(100, 100), grid_cost |-> Rat(29, 100)]
      [] location = "Munich"  -> [incentive_multiplier |-> Rat(115, 100), grid_cost |-> Rat(31, 100)]
      [] location = "Hamburg" -> [incentive_multiplier |-> Rat(105, 100), grid_cost |-> Rat(30, 100)]
      [] OTHER                -> [incentive_multiplier |-> Rat(100, 100), grid_cost |-> Rat(30, 100)]

(* if not household_consumption_kwh or household_consumption_kwh <= 0 *)
no_household_figure(household_consumption_kwh) ==
    \/ IsNone(household_consumption_kwh)
    \/ RLe(household_consumption_kwh, Zero)

raw_self_consumption(solar_production_kwh, household_consumption_kwh) ==
    IF RLe(household_consumption_kwh, solar_production_kwh)
    THEN RDiv(household_consumption_kwh, solar_production_kwh)
    ELSE Num(1)

household_coverage_always_full(solar_production_kwh, household_consumption_kwh) ==
    Num(100)

household_coverage(solar_production_kwh, household_consumption_kwh) ==
    IF RLe(household_consumption_kwh, solar_production_kwh)
    THEN Num(100)
    ELSE RMul(RDiv(solar_production_kwh, household_consumption_kwh), Num(100))

adjusted_rate_exclusive(raw) ==
    IF RLt(Rat(8, 10), raw) THEN RMul(raw, Rat(85, 100))
    ELSE IF RLt(Rat(5, 10), raw) THEN RMul(raw, Rat(80, 100))
    ELSE RMul(raw, Rat(90, 100))

adjusted_rate(raw) ==
    IF RLe(Rat(8, 10), raw) THEN RMul(raw, Rat(85, 100))
    ELSE IF RLe(Rat(5, 10), raw) THEN RMul(raw, Rat(80, 100))
    ELSE RMul(raw, Rat(90, 100))

final_rate_unfloored(adjusted) == RMin(Rat(95, 100), adjusted)

final_rate(adjusted) == RMin(Rat(95, 100), RMax(Rat(20, 100), adjusted))

calculate_self_consumption_rate_by_production(production_kwh, household_kwh) ==
    IF no_household_figure(household_kwh)
    THEN [self_consumption_rate |->
              IF RLt(Num(10000), production_kwh) THEN Rat(30, 100) ELSE Rat(40, 100),
          method                |-> "default_average",
          household_coverage    |-> None,
          raw_rate              |-> None]
    ELSE LET raw == raw_self_consumption(production_kwh, household_kwh)
         IN  [self_consumption_rate |-> PyRound(final_rate(adjusted_rate(raw)), 3),
              method                |-> "household_based",
              household_coverage    |->
                  PyRound(household_coverage(production_kwh, household_kwh), 1),
              raw_rate              |-> PyRound(raw, 3)]

calculate_self_consumption_rate(solar_production_kwh, household_consumption_kwh) ==
    IF no_household_figure(household_consumption_kwh)
    THEN [self_consumption_rate |-> Rat(40, 100),
          method                |-> "default_average",
          household_coverage    |-> None,
          raw_rate              |-> None]
    ELSE LET raw == raw_self_consumption(solar_production_kwh, household_consumption_kwh)
         IN  [self_consumption_rate |-> PyRound(final_rate(adjusted_rate(raw)), 3),
              method                |-> "household_based",
              household_coverage    |->
                  PyRound(household_coverage(solar_production_kwh, household_consumption_kwh), 1),
              raw_rate              |-> PyRound(raw, 3)]

base_tariff_exclusive(system_capacity_kw) ==
    IF RLt(system_capacity_kw, Num(10)) THEN Rat(82, 1000)
    ELSE IF RLt(system_capacity_kw, Num(40)) THEN Rat(71, 1000)
    ELSE Rat(57, 1000)

base_tariff(system_capacity_kw) ==
    IF RLe(system_capacity_kw, Num(10)) THEN Rat(82, 1000)
    ELSE IF RLe(system_capacity_kw, Num(40)) THEN Rat(71, 1000)
    ELSE Rat(57, 1000)

(* Sign of (the double base_tariff * incentive_multiplier) minus the exact *)
(* product, for the doubles nearest to the decimal constants of lines      *)
(* 23-27 and 79-83.                                                        *)
tariff_product_err(base, multiplier) ==
    CASE base = Rat(82, 1000) /\ multiplier = Rat(100, 100) -> 1
      [] base = Rat(82, 1000) /\ multiplier = Rat(115, 100) -> -1
      [] base = Rat(82, 1000) /\ multiplier = Rat(105, 100) -> 1
      [] base = Rat(71, 1000) /\ multiplier = Rat(100, 100) -> -1
      [] base = Rat(71, 1000) /\ multiplier = Rat(115, 100) -> -1
      [] base = Rat(71, 1000) /\ multiplier = Rat(105, 100) -> -1
      [] base = Rat(57, 1000) /\ multiplier = Rat(100, 100) -> 1
      [] base = Rat(57, 1000) /\ multiplier = Rat(115, 100) -> -1
      [] base = Rat(57, 1000) /\ multiplier = Rat(105, 100) -> 1
      [] OTHER -> 0

kfw_benefit_uncapped(system_capacity_kw) == RMul(system_capacity_kw, Num(200))

(* A KfW benefit granted from 5 kW upwards only *)
kfw_benefit_from_5_kw(system_capacity_kw) ==
    IF RLt(system_capacity_kw, Num(5)) THEN Zero
    ELSE RMin(RMul(system_capacity_kw, Num(200)), Num(10000))

kfw_benefit(system_capacity_kw) ==
    RMin(RMul(system_capacity_kw, Num(200)), Num(10000))

regional_incentive(system_capacity_kw) == RMul(system_capacity_kw, Num(150))

calculate_german_incentives(system_capacity_kw, location) ==
    LET location_factors == get_location_specific_factors(location)
        base             == base_tariff(system_capacity_kw)
        adjusted_tariff  == RMul(base, location_factors.incentive_multiplier)
        kfw              == kfw_benefit(system_capacity_kw)
        regional         == regional_incentive(system_capacity_kw)
    IN  [feed_in_tariff_eur_per_kwh |->
             PyRoundErr(adjusted_tariff, 4,
                        tariff_product_err(base, location_factors.incentive_multiplier)),
         kfw_loan_benefit_eur       |-> PyRound(kfw, 2),
         regional_incentive_eur     |-> PyRound(regional, 2),
         total_incentives_eur       |-> PyRound(RAdd(kfw, regional), 2)]

(* line 127: if budget and budget > 0 *)
budget_is_set_truthy(budget) ==
    /\ ~IsNone(budget)
    /\ budget # Zero

budget_is_set(budget) ==
    /\ ~IsNone(budget)
    /\ budget # Zero
    /\ RLt(Zero, budget)

(* line 130: if net_system_cost > budget *)
exceeds_budget_inclusive(net_system_cost, budget) == RLe(budget, net_system_cost)

exceeds_budget(net_system_cost, budget) == RLt(budget, net_system_cost)

(* The value of an expression whose evaluation raises ZeroDivisionError.    *)
ZeroDivisionError == <<1, 0>>

PyDiv(x, y) == IF y[1] = 0 THEN ZeroDivisionError ELSE RDiv(x, y)

scaling_factor_at_least_one(budget, net_system_cost) ==
    RMax(Num(1), PyDiv(budget, net_system_cost))

scaling_factor(budget, net_system_cost) == PyDiv(budget, net_system_cost)

(* line 136 *)
incentives_scaled_linearly(incentives, system_capacity_kw, location, factor) ==
    [feed_in_tariff_eur_per_kwh |-> incentives.feed_in_tariff_eur_per_kwh,
     kfw_loan_benefit_eur       |-> PyRound(RMul(incentives.kfw_loan_benefit_eur, factor), 2),
     regional_incentive_eur     |-> PyRound(RMul(incentives.regional_incentive_eur, factor), 2),
     total_incentives_eur       |-> PyRound(RMul(incentives.total_incentives_eur, factor), 2)]

incentives_after_scaling(incentives, system_capacity_kw, location, factor) ==
    calculate_german_incentives(system_capacity_kw, location)


(* Lines 115-206, step by step.  Each step receives the record l of the    *)
(* local variables assigned so far and adds the ones it assigns; a         *)
(* variable the code assigns twice keeps its first value under a name      *)
(* ending in 0.                                                            *)

(* lines 118-123 *)
roi_inputs(solar_output, location) ==
    [annual_kwh0      |-> solar_output.annual_kwh,
     capacity0        |-> solar_output.system_capacity_kw,
     cost0            |-> RMul(solar_output.system_capacity_kw, Num(system_cost_per_kw)),
     location_factors |-> get_location_specific_factors(location),
     incentives0      |-> calculate_german_incentives(solar_output.system_capacity_kw,
                                                      location)]

(* lines 127-131; raised = TRUE when the division of line 131 raises *)
roi_budget_test(l, budget) ==
    LET net_system_cost == RSub(l.cost0, l.incentives0.total_incentives_eur)
        scaled ==
            budget_is_set(budget) /\ exceeds_budget(net_system_cost, budget)
        factor == IF scaled THEN scaling_factor(budget, net_system_cost) ELSE None
    IN  l @@ [net_system_cost |-> net_system_cost,
              scaled          |-> scaled,
              factor          |-> factor,
              raised          |-> factor = ZeroDivisionError]

(* lines 132-136 *)
roi_budget_scaling(l, location) ==
    IF l.scaled /\ ~l.raised
    THEN LET system_capacity_kw == RMul(l.capacity0, l.factor)
         IN  l @@ [system_capacity_kw     |-> system_capacity_kw,
                   annual_kwh             |-> RMul(l.annual_kwh0, l.factor),
                   base_installation_cost |->
                       RMul(system_capacity_kw, Num(system_cost_per_kw)),
                   incentives             |->
                       incentives_after_scaling(l.incentives0, system_capacity_kw,
                                                location, l.factor)]
    ELSE l @@ [system_capacity_kw     |-> l.capacity0,
               annual_kwh             |-> l.annual_kwh0,
               base_installation_cost |-> l.cost0,
               incentives             |-> l.incentives0]

(* lines 125 and 138-143 *)
roi_scaling_info(l) ==
    IF l.scaled
    THEN [system_scaled      |-> TRUE,
          scaling_factor     |-> PyRound(l.factor, 3),
          scaled_capacity_kw |-> PyRound(l.system_capacity_kw, 2),
          scaled_annual_kwh  |-> PyRound(l.annual_kwh, 1)]
    ELSE [system_scaled      |-> FALSE,
          scaling_factor     |-> None,
          scaled_capacity_kw |-> None,
          scaled_annual_kwh  |-> None]

roi_total_investment_floor_100(l) ==
    LET net_cost == RSub(l.base_installation_cost, l.incentives.total_incentives_eur)
    IN  l @@ [total_investment |-> IF RLt(net_cost, Num(100)) THEN Num(100) ELSE net_cost]

(* lines 145-148 *)
roi_total_investment(l) ==
    LET net_cost == RSub(l.base_installation_cost, l.incentives.total_incentives_eur)
    IN  l @@ [total_investment |-> IF RLt(net_cost, Num(500)) THEN Num(500) ELSE net_cost]

(* lines 153-154 *)
roi_self_consumption(l, household_consumption) ==
    LET consumption_analysis ==
            calculate_self_consumption_rate(l.annual_kwh, household_consumption)
    IN  l @@ [consumption_analysis  |-> consumption_analysis,
              self_consumption_rate |-> consumption_analysis.self_consumption_rate]

(* lines 155-162 *)
roi_energy_split(l) ==
    LET feed_in_rate == RSub(Num(1), l.self_consumption_rate)
    IN  l @@ [feed_in_rate      |-> feed_in_rate,
              self_consumed_kwh |-> RMul(l.annual_kwh, l.self_consumption_rate),
              fed_in_kwh        |-> RMul(l.annual_kwh, feed_in_rate)]

roi_savings_original_tariff(l, electricity_rate) ==
    LET annual_electricity_savings ==
            DecMulRat(DecFromRat(l.self_consumed_kwh), electricity_rate)
        feed_in_income ==
            DecMulRat(DecFromRat(l.fed_in_kwh), l.incentives0.feed_in_tariff_eur_per_kwh)
    IN  l @@ [electricity_rate            |-> electricity_rate,
              annual_electricity_savings  |-> annual_electricity_savings,
              feed_in_income              |-> feed_in_income,
              annual_savings              |->
                  DecAdd(annual_electricity_savings, feed_in_income)]

(* lines 150 and 159-166; the three amounts are Decs *)
roi_savings(l, electricity_rate) ==
    LET annual_electricity_savings ==
            DecMulRat(DecFromRat(l.self_consumed_kwh), electricity_rate)
        feed_in_income ==
            DecMulRat(DecFromRat(l.fed_in_kwh), l.incentives.feed_in_tariff_eur_per_kwh)
    IN  l @@ [electricity_rate            |-> electricity_rate,
              annual_electricity_savings  |-> annual_electricity_savings,
              feed_in_income              |-> feed_in_income,
              annual_savings              |->
                  DecAdd(annual_electricity_savings, feed_in_income)]

(* Sign of |the double| - |x| for the amounts x of lines 159-166 that lie   *)
(* halfway between two cents: the double carries the representation        *)
(* errors of the rate, the tariff and the products.                        *)
amount_err(x) ==
    CASE x = <<0, 31, 2500, 0, 0>>    -> 1
      [] x = <<0, 93, 7500, 0, 0>>    -> 1
      [] x = <<0, 105, 48500, 0, 0>>  -> 1
      [] x = <<0, 316, 45500, 0, 0>>  -> 1
      [] x = <<0, 440, 55500, 0, 0>>  -> 1
      [] x = <<0, 452, 96500, 0, 0>>  -> 1
      [] x = <<0, 527, 42500, 0, 0>>  -> 1
      [] x = <<0, 701, 16500, 0, 0>>  -> -1
      [] x = <<0, 763, 21500, 0, 0>>  -> 1
      [] x = <<0, 862, 49500, 0, 0>>  -> 1
      [] x = <<0, 1061, 5500, 0, 0>>  -> 1
      [] x = <<0, 1321, 66500, 0, 0>> -> -1
      [] x = <<0, 1582, 27500, 0, 0>> -> 1
      [] x = <<0, 1793, 24500, 0, 0>> -> 1
      [] x = <<0, 2872, 91500, 0, 0>> -> 1
      [] x = <<0, 5280, 45500, 0, 0>> -> 1
      [] x = <<0, 5541, 6500, 0, 0>>  -> 1
      [] OTHER -> 0

(* lines 183 and 193-194: round(amount, 2) *)
round_amount(x) == DecRoundErr(x, 2, amount_err(DecAbs(x)))

payback_period_negative_only(annual_savings, total_investment) ==
    IF DecSign(annual_savings) < 0 THEN Num(999)
    ELSE IF annual_savings = DecZero THEN ZeroDivisionError
    ELSE Rat(DecRoundDiv(DecMulInt(DecFromRat(total_investment), 10), annual_savings), 10)

(* lines 168-171 and 184: round(payback_period, 1) *)
payback_period(annual_savings, total_investment) ==
    IF DecSign(annual_savings) > 0
    THEN Rat(DecRoundDiv(DecMulInt(DecFromRat(total_investment), 10), annual_savings), 10)
    ELSE Num(999)

(* Sign of the double roi_percentage * 10 minus its exact value, for the   *)
(* values of the model that lie halfway between two integers;              *)
(* tenths = floor(roi_percentage * 10).                                    *)
roi_percentage_err(tenths) ==
    CASE tenths = 44296  -> 1
      [] tenths = 75321  -> -1
      [] tenths = 85249  -> -1
      [] tenths = 286291 -> 1
      [] OTHER -> 0

roi_percentage_tenths(qr, total_investment) ==
    DecRoundDivAbs(qr, total_investment, roi_percentage_err(qr[1]))

roi_percentage_first_year(annual_savings, total_investment) ==
    IF DecLt(annual_savings, total_investment)
    THEN Rat(-roi_percentage_tenths(
                 DecDivMod(DecMulInt(DecSub(total_investment, annual_savings), 1000),
                           total_investment),
                 total_investment), 10)
    ELSE Rat(roi_percentage_tenths(
                 DecDivMod(DecMulInt(DecSub(annual_savings, total_investment), 1000),
                           total_investment),
                 total_investment), 10)

(* lines 173 and 185: round(roi_percentage, 1), for total_investment > 0 *)
roi_percentage(annual_savings, total_investment) ==
    IF DecLt(DecMulInt(annual_savings, system_lifetime), total_investment)
    THEN Rat(-roi_percentage_tenths(
                 DecDivMod(DecMulInt(DecSub(total_investment,
                                            DecMulInt(annual_savings, system_lifetime)),
                                     1000),
                           total_investment),
                 total_investment), 10)
    ELSE Rat(roi_percentage_tenths(
                 DecDivMod(DecMulInt(DecSub(DecMulInt(annual_savings, system_lifetime),
                                            total_investment),
                                     1000),
                           total_investment),
                 total_investment), 10)

(* calculate_npv_and_irr, lines 107 and 111: round(irr_estimate, 1), for   *)
(* total_investment > 0                                                    *)
irr_percentage(annual_savings, total_investment) ==
    Rat(DecRoundDiv(DecMulInt(annual_savings, 1000), total_investment), 10)

(* The lifetime total with the yearly production degrading by 0.5 % a year: *)
(* 23.55 first-year figures over 25 years                                   *)
co2_reduction_tons_degrading(annual_kwh, years, k) ==
    IF years = 1 THEN PyRoundScaled(annual_kwh, 401, 1000000, k)
    ELSE PyRoundScaled(annual_kwh, 401 * 2355, 100000000, k)

(* lines 178-180, 187 and 188: round(annual_kwh * 0.401 / 1000 * years, k) *)
co2_reduction_tons(annual_kwh, years, k) ==
    PyRoundScaled(annual_kwh, 401 * years, 1000000, k)

(* Lines 178-203, and 205-206 when the body raised.  The record carries,   *)
(* next to the fields of the returned dict, the unrounded local variables  *)
(* the dict was built from (field "locals"); raised = TRUE when the except *)
(* clause re-raised "ROI calculation failed".                              *)
roi_return(l) ==
    IF l.raised
    THEN [raised |-> TRUE]
    ELSE [raised                 |-> FALSE,
          locals                 |->
              [net_system_cost        |-> l.net_system_cost,
               scaling_factor         |-> l.factor,
               system_capacity_kw     |-> l.system_capacity_kw,
               annual_kwh             |-> l.annual_kwh,
               base_installation_cost |-> l.base_installation_cost,
               total_investment       |-> l.total_investment,
               self_consumption_rate  |-> l.self_consumption_rate,
               feed_in_rate           |-> l.feed_in_rate,
               self_consumed_kwh      |-> l.self_consumed_kwh,
               fed_in_kwh             |-> l.fed_in_kwh,
               electricity_rate       |-> l.electricity_rate,
               annual_electricity_savings |-> l.annual_electricity_savings,
               feed_in_income         |-> l.feed_in_income,
               annual_savings         |-> l.annual_savings],
          annual_savings         |-> round_amount(l.annual_savings),
          payback_period         |-> payback_period(l.annual_savings, l.total_investment),
          roi_percentage         |-> roi_percentage(l.annual_savings, DecFromRat(l.total_investment)),
          irr_percentage         |-> irr_percentage(l.annual_savings, DecFromRat(l.total_investment)),
          electricity_savings_eur |-> round_amount(l.annual_electricity_savings),
          feed_in_income_eur     |-> round_amount(l.feed_in_income),
          electricity_rate_eur_per_kwh |-> PyRound(l.electricity_rate, 3),
          scaling_info           |-> roi_scaling_info(l),
          incentives             |-> l.incentives,
          location_factors       |-> l.location_factors,
          consumption_analysis   |-> l.consumption_analysis,
          total_investment       |-> PyRound(l.total_investment, 2),
          co2_reduction          |-> co2_reduction_tons(l.annual_kwh, 1, 2),
          co2_reduction_lifetime |-> co2_reduction_tons(l.annual_kwh, system_lifetime, 1),
          system_capacity_kw     |-> PyRound(l.system_capacity_kw, 2),
          annual_kwh_adjusted    |-> PyRound(l.annual_kwh, 1),
          self_consumed_kwh      |-> PyRound(l.self_consumed_kwh, 1),
          fed_in_kwh             |-> PyRound(l.fed_in_kwh, 1),
          self_consumption_rate  |-> PyRound(RMul(l.self_consumption_rate, Num(100)), 1),
          household_coverage     |-> l.consumption_analysis.household_coverage]

calculate_roi(solar_output, budget, location, household_consumption) ==
    roi_return(
        roi_savings(
            roi_energy_split(
                roi_self_consumption(
                    roi_total_investment(
                        roi_budget_scaling(
                            roi_budget_test(roi_inputs(solar_output, location), budget),
                            location)),
                    household_consumption)),
            get_electricity_price))


(***************************************************************************)
(* SolarCalculator.calculate_annual_output_enhanced (solar_calculator.py)  *)
(***************************************************************************)
PANEL_EFFICIENCY == Rat(20, 100)

SYSTEM_LOSSES == Rat(85, 100)

Months == 1 .. 12

ORIENTATION_FACTORS(orientation) ==
    CASE orientation = "south"     -> Rat(100, 100)
      [] orientation = "southeast" -> Rat(95, 100)
      [] orientation = "southwest" -> Rat(95, 100)
      [] orientation = "east"      -> Rat(85, 100)
      [] orientation = "west"      -> Rat(85, 100)
      [] orientation = "northeast" -> Rat(75, 100)
      [] orientation = "northwest" -> Rat(75, 100)
      [] orientation = "north"     -> Rat(60, 100)
      [] OTHER                     -> Rat(85, 100)

(* sum(f.values()) of the entries lo .. hi, added pairwise *)
RECURSIVE SumValues(_, _, _)
SumValues(f, lo, hi) ==
    IF lo > hi THEN Zero
    ELSE IF lo = hi THEN f[lo]
    ELSE LET mid == (lo + hi) \div 2
         IN  RAdd(SumValues(f, lo, mid), SumValues(f, mid + 1, hi))

(* max(keys, key = ...) over lo .. hi: the first key, in iteration order,  *)
(* of a largest value                                                      *)
RECURSIVE ArgMaxFrom(_, _, _)
ArgMaxFrom(f, lo, hi) ==
    IF lo = hi THEN lo
    ELSE LET mid   == (lo + hi) \div 2
             left  == ArgMaxFrom(f, lo, mid)
             right == ArgMaxFrom(f, mid + 1, hi)
         IN  IF RLt(f[left], f[right]) THEN right ELSE left

ArgMax(f) == ArgMaxFrom(f, 1, Len(f))

(* weather_data: the dict weather_results holds for the requested mode;    *)
(* daily_irradiance_kwh_m2 = None when the key is absent;                  *)
(* seasonal_variations the tuple of the entries for months 1 .. 12, or the *)
(* empty tuple for an empty or absent dict; a weather_results without an   *)
(* entry for the mode gives the weather_data {}, both fields absent.  Each *)
(* step below receives the record l of the local variables assigned so far *)
(* and adds the ones it assigns.  The returned weather_analysis is shown   *)
(* by the entry of the requested mode.                                     *)

(* solar_annual without the system losses of 15 % *)
solar_annual_without_losses(roof_area, orientation, weather_data) ==
    LET daily_irradiance ==
            IF IsNone(weather_data.daily_irradiance_kwh_m2)
            THEN Rat(35, 10)
            ELSE weather_data.daily_irradiance_kwh_m2
        annual_avg_irradiance == RDiv(daily_irradiance, Rat(14, 10))
    IN  [system_capacity_kw |-> RMul(roof_area, Rat(20, 100)),
         annual_output_kwh  |->
             RMul(RMul(RMul(RMul(annual_avg_irradiance, roof_area), PANEL_EFFICIENCY),
                       ORIENTATION_FACTORS(orientation)), Num(365)),
         seasonal_pattern   |-> weather_data.seasonal_variations,
         roof_area          |-> roof_area,
         orientation        |-> orientation,
         daily_irradiance   |-> daily_irradiance,
         weather_data       |-> weather_data]

(* lines 97-117 and 120 *)
solar_annual(roof_area, orientation, weather_data) ==
    LET daily_irradiance ==
            IF IsNone(weather_data.daily_irradiance_kwh_m2)
            THEN Rat(35, 10)
            ELSE weather_data.daily_irradiance_kwh_m2
        orientation_factor == ORIENTATION_FACTORS(orientation)
        annual_avg_irradiance == RDiv(daily_irradiance, Rat(14, 10))
    IN  [system_capacity_kw |-> RMul(roof_area, Rat(20, 100)),
         annual_output_kwh  |->
             RMul(RMul(RMul(RMul(RMul(annual_avg_irradiance, roof_area), PANEL_EFFICIENCY),
                            SYSTEM_LOSSES), orientation_factor), Num(365)),
         seasonal_pattern   |-> weather_data.seasonal_variations,
         roof_area          |-> roof_area,
         orientation        |-> orientation,
         daily_irradiance   |-> daily_irradiance,
         weather_data       |-> weather_data]

(* line 127 *)
avg_factor(seasonal_pattern) ==
    IF DOMAIN seasonal_pattern # {}
    THEN RDiv(SumValues(seasonal_pattern, 1, Len(seasonal_pattern)), Num(12))
    ELSE Num(1)

(* lines 125-129, one pass of the loop *)
monthly_output(annual_output_kwh, seasonal_pattern, avg, month) ==
    LET monthly_factor ==
            IF month \in DOMAIN seasonal_pattern THEN seasonal_pattern[month] ELSE Num(1)
        normalized_factor ==
            IF RLt(Zero, avg) THEN RDiv(monthly_factor, avg) ELSE Num(1)
    IN  RDiv(RMul(annual_output_kwh, normalized_factor), Num(12))

(* lines 121-129 *)
monthly_outputs(annual_output_kwh, seasonal_pattern, avg) ==
    <<monthly_output(annual_output_kwh, seasonal_pattern, avg, 1),
      monthly_output(annual_output_kwh, seasonal_pattern, avg, 2),
      monthly_output(annual_output_kwh, seasonal_pattern, avg, 3),
      monthly_output(annual_output_kwh, seasonal_pattern, avg, 4),
      monthly_output(annual_output_kwh, seasonal_pattern, avg, 5),
      monthly_output(annual_output_kwh, seasonal_pattern, avg, 6),
      monthly_output(annual_output_kwh, seasonal_pattern, avg, 7),
      monthly_output(annual_output_kwh, seasonal_pattern, avg, 8),
      monthly_output(annual_output_kwh, seasonal_pattern, avg, 9),
      monthly_output(annual_output_kwh, seasonal_pattern, avg, 10),
      monthly_output(annual_output_kwh, seasonal_pattern, avg, 11),
      monthly_output(annual_output_kwh, seasonal_pattern, avg, 12)>>

solar_monthly(l) ==
    l @@ [monthly_outputs |->
              monthly_outputs(l.annual_output_kwh, l.seasonal_pattern,
                              avg_factor(l.seasonal_pattern))]

(* lines 132 and 140; capacity_ratio = ZeroDivisionError when the division *)
(* of line 140 raises                                                      *)
solar_peak(l) ==
    l @@ [peak_month     |-> ArgMax(l.monthly_outputs),
          capacity_ratio |->
              PyDiv(l.annual_output_kwh, RMul(l.system_capacity_kw, Num(8760)))]

(* lines 135-154, and 156-158 when the body raised *)
solar_return(l) ==
    IF l.capacity_ratio = ZeroDivisionError
    THEN [raised |-> TRUE]
    ELSE [raised                |-> FALSE,
          annual_output_kwh     |-> PyRound(l.annual_output_kwh, 2),
          monthly_outputs_kwh   |-> l.monthly_outputs,
          daily_average_kwh     |-> PyRound(RDiv(l.annual_output_kwh, Num(365)), 2),
          system_capacity_kw    |-> PyRound(l.system_capacity_kw, 1),
          capacity_factor       |-> PyRound(RMul(l.capacity_ratio, Num(100)), 1),
          peak_month            |-> l.peak_month,
          peak_month_production |-> PyRound(l.monthly_outputs[l.peak_month], 2),
          weather_analysis      |-> l.weather_data,
          calculation_parameters |->
              [roof_area_m2          |-> l.roof_area,
               orientation           |-> l.orientation,
               daily_irradiance_peak |-> l.daily_irradiance]]

calculate_annual_output_enhanced(roof_area, orientation, weather_data) ==
    solar_return(solar_peak(solar_monthly(solar_annual(roof_area, orientation,
                                                       weather_data))))


(***************************************************************************)
(* The /analyze route (routes.py) and direct calls of calculate_roi        *)
(***************************************************************************)
VARIABLES
    pc,                       \* position of the request being served
    request,                  \* the AnalysisRequest
    enhanced_result,          \* result of calculate_annual_output_enhanced
    solar_output,             \* the route's solar_output dict
    roi_args,                 \* the arguments of the calculate_roi call
    financial_analysis_dict,  \* the dict calculate_roi returned
    response                  \* the HTTP response

vars == <<pc, request, enhanced_result, solar_output, roi_args,
          financial_analysis_dict, response, electricity_price_config, price_update>>

Nil == [nil |-> TRUE]

(* Bounds of the input sets.  The inputs are decimal figures chosen so    *)
(* that the exact quotients the code forms (budget / net cost, household   *)
(* consumption / production) keep numerators and denominators within the   *)
(* range of the model checker's integers.                                  *)
MaxBudgetK == 4

MaxHouseholdK == 4

(* Prices the manual update endpoint is given: free, and a negative price *)
ElectricityPrices == {Zero, Rat(-5, 100)}

Locations == {"Berlin", "Munich", "Hamburg", "Cologne"}

Orientations == {"south", "north", "flat"}

(* AnalysisRequest.roof_area: Field(..., gt=0) *)
RoofAreas == {Rat(22, 100), Num(25), Num(50), Num(200)}

(* Budgets in steps of 1812.50 EUR *)
SteppedBudgets == {Rat(18125 * k, 10) : k \in 1 .. MaxBudgetK}

(* AnalysisRequest.budget: Optional, Field(None, gt=0) *)
RequestBudgets == {None, Rat(464, 1000), Rat(232, 10)} \cup SteppedBudgets

(* _get_default_seasonal_pattern, weather_service.py lines 171-193 *)
base_pattern ==
    <<Rat(4, 10), Rat(6, 10), Rat(8, 10), Rat(11, 10), Rat(13, 10), Rat(14, 10),
      Rat(14, 10), Rat(12, 10), Rat(10, 10), Rat(7, 10), Rat(5, 10), Rat(3, 10)>>

(* lines 181-191: the entry of month m after the regional adjustments *)
regional_adjustment(pattern, region, m) ==
    IF region = "north" /\ m \in {6, 7} THEN RMul(pattern[m], Rat(11, 10))
    ELSE IF region = "north" /\ m \in {12, 1, 2} THEN RMul(pattern[m], Rat(9, 10))
    ELSE IF region = "south" /\ m \in {12, 1, 2} THEN RMul(pattern[m], Rat(12, 10))
    ELSE pattern[m]

adjusted_pattern(pattern, region) ==
    <<regional_adjustment(pattern, region, 1), regional_adjustment(pattern, region, 2),
      regional_adjustment(pattern, region, 3), regional_adjustment(pattern, region, 4),
      regional_adjustment(pattern, region, 5), regional_adjustment(pattern, region, 6),
      regional_adjustment(pattern, region, 7), regional_adjustment(pattern, region, 8),
      regional_adjustment(pattern, region, 9), regional_adjustment(pattern, region, 10),
      regional_adjustment(pattern, region, 11), regional_adjustment(pattern, region, 12)>>

_get_default_seasonal_pattern(region) == adjusted_pattern(base_pattern, region)

flat_pattern ==
    <<Num(1), Num(1), Num(1), Num(1), Num(1), Num(1),
      Num(1), Num(1), Num(1), Num(1), Num(1), Num(1)>>

empty_pattern == <<>>

(* A dict without an entry for December *)
pattern_without_december == SubSeq(base_pattern, 1, 11)

(* What the weather service supplies for the requested mode *)
WeatherData ==
    {[daily_irradiance_kwh_m2 |-> i, seasonal_variations |-> p] :
        i \in {Rat(35, 10), Rat(38, 10)},
        p \in {_get_default_seasonal_pattern("center"),
               _get_default_seasonal_pattern("north"), flat_pattern}}
    \cup {[daily_irradiance_kwh_m2 |-> Rat(32, 10), seasonal_variations |-> empty_pattern],
          [daily_irradiance_kwh_m2 |-> Rat(35, 10),
           seasonal_variations |-> pattern_without_december],
          [daily_irradiance_kwh_m2 |-> None,
           seasonal_variations |-> _get_default_seasonal_pattern("south")],
          \* no entry for the requested mode
          [daily_irradiance_kwh_m2 |-> None, seasonal_variations |-> empty_pattern]}

(* Roof areas of a call of calculate_annual_output_enhanced that no request *)
(* model has validated; 0 is the default of the parameter                   *)
DirectRoofAreas == {Zero, Num(-10)}

(* EnhancedAnalysisRequest: location Optional (absent: ""), roof_area      *)
(* Field(..., gt=0), budget Optional, Field(None, gt=0)                     *)
EnhancedRequests ==
    {[location |-> location, roof_area |-> Num(50), orientation |-> "south",
      budget |-> budget] :
        location \in {"", "Munich"}, budget \in {None, Rat(232, 10), Num(3625)}}

(* Arguments <<capacity, budget, annual_kwh, household_consumption>> of a   *)
(* direct call of ROICalculator.calculate_roi; the method accepts any dict *)
(* and any floats, also a zero or negative capacity or budget.             *)
DirectHousehold == {None} \cup {Num(2400 * k) : k \in 0 .. MaxHouseholdK}

DirectAnnualKwh == {Zero, Rat(775625, 100), Num(31025)}

DirectCalls ==
    \* systems up to 50 kW against the whole range of budgets
    ({Num(-1), Zero, Num(10), Num(40), Num(50)}
        \X ({None, Zero, Num(-100), Rat(464, 1000), Num(14500), Num(100000)}
                \cup SteppedBudgets)
        \X DirectAnnualKwh \X DirectHousehold)
    \* just above the feed-in tariff tier boundaries
    \cup ({Rat(1001, 100), Rat(4001, 100)} \X {None, Num(100000)}
            \X {Rat(775625, 100)} \X {None})
    \* a system above the KfW cap
    \cup ({Num(60)} \X {None, Rat(178, 10), Num(22250), Num(100000)}
            \X DirectAnnualKwh \X DirectHousehold)
    \* a system far above the KfW cap, scaled to 80 kW
    \cup ({Num(100)} \X {Num(124000)} \X {Rat(775625, 100)} \X {None})
    \* a budget just below the net cost of 14500 EUR
    \cup ({Num(10)} \X {Rat(144942, 10)} \X {Rat(775625, 100)} \X {None})
    \* a production whose two shares both round upwards
    \cup ({Num(10)} \X {None} \X {Rat(100013, 100)} \X {None})
    \* households that use exactly 0.8 and 0.5 of the production
    \cup ({Num(10)} \X {None} \X {Num(3000), Num(4800)} \X {Num(2400)})

Init ==
    /\ pc = "idle"
    /\ request = Nil
    /\ enhanced_result = Nil
    /\ solar_output = Nil
    /\ roi_args = Nil
    /\ financial_analysis_dict = Nil
    /\ response = Nil
    /\ electricity_price_config = None
    /\ price_update = [path \in UpdatePaths |-> NoUpdate("")]

(* routes.py lines 24-81, data_source = "eda" *)
AnalyzeSolar(req, weather_data) ==
    /\ pc = "idle"
    /\ request' = req
    /\ LET outcome(result) ==
               IF result.raised
               THEN /\ pc' = "failed"
                    /\ response' = [status |-> 500]
                    /\ UNCHANGED <<enhanced_result, solar_output>>
               ELSE /\ pc' = "analyze_roi"
                    /\ enhanced_result' = result
                    /\ solar_output' =
                           [annual_kwh            |-> result.annual_output_kwh,
                            daily_average         |-> result.daily_average_kwh,
                            peak_month_production |-> result.peak_month_production,
                            monthly_production    |-> result.monthly_outputs_kwh,
                            system_capacity_kw    |-> result.system_capacity_kw,
                            capacity_factor       |-> result.capacity_factor]
                    /\ UNCHANGED response
       IN  outcome(calculate_annual_output_enhanced(req.roof_area, req.orientation,
                                                    weather_data))
    /\ UNCHANGED <<roi_args, financial_analysis_dict, electricity_price_config, price_update>>

(* routes.py lines 83-89 *)
AnalyzeRoi ==
    /\ pc = "analyze_roi"
    /\ roi_args' = [solar_output          |-> [annual_kwh |-> solar_output.annual_kwh,
                                               system_capacity_kw |->
                                                   solar_output.system_capacity_kw],
                    budget                |-> request.budget,
                    location              |-> request.location,
                    household_consumption |-> None]
    /\ LET outcome(result) ==
               /\ financial_analysis_dict' = result
               /\ IF result.raised
                  THEN pc' = "failed" /\ response' = [status |-> 500]
                  ELSE pc' = "analyze_update" /\ UNCHANGED response
       IN  outcome(calculate_roi(solar_output, request.budget, request.location, None))
    /\ UNCHANGED <<request, enhanced_result, solar_output, electricity_price_config, price_update>>

(* routes.py line 100 *)
scaled_monthly_production(monthly_production, factor) ==
    <<PyRound(RMul(monthly_production[1], factor), 2),
      PyRound(RMul(monthly_production[2], factor), 2),
      PyRound(RMul(monthly_production[3], factor), 2),
      PyRound(RMul(monthly_production[4], factor), 2),
      PyRound(RMul(monthly_production[5], factor), 2),
      PyRound(RMul(monthly_production[6], factor), 2),
      PyRound(RMul(monthly_production[7], factor), 2),
      PyRound(RMul(monthly_production[8], factor), 2),
      PyRound(RMul(monthly_production[9], factor), 2),
      PyRound(RMul(monthly_production[10], factor), 2),
      PyRound(RMul(monthly_production[11], factor), 2),
      PyRound(RMul(monthly_production[12], factor), 2)>>

(* routes.py lines 100-101 *)
with_monthly_production(so, monthly) ==
    [so EXCEPT !.monthly_production    = monthly,
               !.peak_month_production = monthly[ArgMax(monthly)]]

(* routes.py lines 92-101: the dict after the assignments of lines 96-101 *)
scaled_solar_output(so, scaling_info) ==
    with_monthly_production(
        [so EXCEPT !.annual_kwh         = scaling_info.scaled_annual_kwh,
                   !.system_capacity_kw = scaling_info.scaled_capacity_kw,
                   !.daily_average      =
                       PyRound(RDiv(scaling_info.scaled_annual_kwh, Num(365)), 2)],
        scaled_monthly_production(so.monthly_production, scaling_info.scaling_factor))

(* routes.py line 103: capacity_factor as the line computes it, or          *)
(* ZeroDivisionError when the division raises                               *)
capacity_ratio_percent(ratio) ==
    IF ratio = ZeroDivisionError THEN ZeroDivisionError
    ELSE PyRound(RMul(ratio, Num(100)), 1)

recomputed_capacity_factor(so) ==
    capacity_ratio_percent(PyDiv(so.annual_kwh, RMul(so.system_capacity_kw, Num(8760))))

(* routes.py lines 91-103 *)
AnalyzeUpdate ==
    /\ pc = "analyze_update"
    /\ IF financial_analysis_dict.scaling_info.system_scaled
       THEN LET store(so, cf) ==
                    IF cf = ZeroDivisionError
                    THEN /\ solar_output' = so
                         /\ pc' = "failed"
                         /\ response' = [status |-> 500]
                    ELSE /\ solar_output' = [so EXCEPT !.capacity_factor = cf]
                         /\ pc' = "analyze_respond"
                         /\ UNCHANGED response
                recompute(so) == store(so, recomputed_capacity_factor(so))
            IN  recompute(scaled_solar_output(solar_output,
                                              financial_analysis_dict.scaling_info))
       ELSE /\ pc' = "analyze_respond"
            /\ UNCHANGED <<solar_output, response>>
    /\ UNCHANGED <<request, enhanced_result, roi_args, financial_analysis_dict,
                   electricity_price_config, price_update>>

(* rag_service.py lines 199-206, get_live_price_fact: the price of the     *)
(* config file at the time of the report                                    *)
report_price_live(calculations) == PyRound(get_electricity_price, 3)

(* routes.py lines 106-110: the electricity price the report stage has, the *)
(* one in the calculations it is handed                                     *)
report_price(calculations) == calculations.electricity_rate_eur_per_kwh

(* routes.py lines 105-139; the feasibility report is shown by the price    *)
(* figures of the calculations it is generated from                         *)
AnalyzeRespond ==
    /\ pc = "analyze_respond"
    /\ pc' = "responded"
    /\ response' =
           [status             |-> 200,
            location           |-> request.location,
            feasibility_report |->
                [electricity_rate_eur_per_kwh |-> report_price(financial_analysis_dict),
                 annual_savings               |-> financial_analysis_dict.annual_savings,
                 payback_period               |-> financial_analysis_dict.payback_period],
            solar_potential    |->
                [annual_kwh            |-> solar_output.annual_kwh,
                 daily_average         |-> solar_output.daily_average,
                 peak_month_production |-> solar_output.peak_month_production,
                 monthly_production    |-> solar_output.monthly_production],
            financial_analysis |->
                [total_investment |-> financial_analysis_dict.total_investment,
                 co2_reduction    |-> financial_analysis_dict.co2_reduction]]
    /\ UNCHANGED <<request, enhanced_result, solar_output, roi_args, financial_analysis_dict,
                   electricity_price_config, price_update>>

(* routes.py lines 243-255 of /analyze-enhanced; req carries the latitude   *)
(* and longitude the calculation requires, which the model leaves out      *)
AnalyzeEnhancedSolar(req, weather_data) ==
    /\ pc = "idle"
    /\ request' = req
    /\ LET outcome(result) ==
               IF result.raised
               THEN /\ pc' = "failed"
                    /\ response' = [status |-> 500]
                    /\ UNCHANGED enhanced_result
               ELSE /\ pc' = "enhanced_roi"
                    /\ enhanced_result' = result
                    /\ UNCHANGED response
       IN  outcome(calculate_annual_output_enhanced(req.roof_area, req.orientation,
                                                    weather_data))
    /\ UNCHANGED <<solar_output, roi_args, financial_analysis_dict,
                   electricity_price_config, price_update>>

(* routes.py line 283: request.location or "Germany" *)
location_or_germany(location) == IF location = "" THEN "Germany" ELSE location

(* routes.py lines 270-284; solar_output_dict is kept in roi_args *)
AnalyzeEnhancedRoi ==
    /\ pc = "enhanced_roi"
    /\ LET solar_output_dict ==
               [annual_kwh         |-> enhanced_result.annual_output_kwh,
                system_capacity_kw |-> enhanced_result.system_capacity_kw]
           location == location_or_germany(request.location)
           outcome(result) ==
               /\ financial_analysis_dict' = result
               /\ IF result.raised
                  THEN pc' = "failed" /\ response' = [status |-> 500]
                  ELSE pc' = "enhanced_respond" /\ UNCHANGED response
       IN  /\ roi_args' = [solar_output          |-> solar_output_dict,
                           budget                |-> request.budget,
                           location              |-> location,
                           household_consumption |-> None]
           /\ outcome(calculate_roi(solar_output_dict, request.budget, location, None))
    /\ UNCHANGED <<request, enhanced_result, solar_output, electricity_price_config, price_update>>

(* routes.py lines 257-268 and 312-335: solar_potential is built from       *)
(* result before calculate_roi is called and is returned as it was built    *)
AnalyzeEnhancedRespond ==
    /\ pc = "enhanced_respond"
    /\ pc' = "enhanced_responded"
    /\ response' =
           [status             |-> 200,
            location           |-> request.location,
            solar_potential    |->
                [annual_kwh            |-> enhanced_result.annual_output_kwh,
                 daily_average         |-> enhanced_result.daily_average_kwh,
                 monthly_outputs_kwh   |-> enhanced_result.monthly_outputs_kwh,
                 system_capacity_kw    |-> enhanced_result.system_capacity_kw,
                 capacity_factor       |-> enhanced_result.capacity_factor,
                 peak_month            |-> enhanced_result.peak_month,
                 peak_month_production |-> enhanced_result.peak_month_production],
            financial_analysis |->
                [total_investment |-> financial_analysis_dict.total_investment,
                 co2_reduction    |-> financial_analysis_dict.co2_reduction]]
    /\ UNCHANGED <<request, enhanced_result, solar_output, roi_args, financial_analysis_dict,
                   electricity_price_config, price_update>>

(* ROICalculator.calculate_roi called on its own *)
DirectRoi(so, budget, location, household_consumption) ==
    /\ pc = "idle"
    /\ roi_args' = [solar_output          |-> so,
                    budget                |-> budget,
                    location              |-> location,
                    household_consumption |-> household_consumption]
    /\ financial_analysis_dict' = calculate_roi(so, budget, location, household_consumption)
    /\ pc' = "direct_done"
    /\ UNCHANGED <<request, enhanced_result, solar_output, response,
                   electricity_price_config, price_update>>

(* SolarCalculator.calculate_annual_output_enhanced called on its own *)
DirectSolar(roof_area, orientation, weather_data) ==
    /\ pc = "idle"
    /\ enhanced_result' =
           calculate_annual_output_enhanced(roof_area, orientation, weather_data)
    /\ pc' = "direct_done"
    /\ UNCHANGED <<request, solar_output, roi_args, financial_analysis_dict, response,
                   electricity_price_config, price_update>>

(* The request is over; the next one starts from a fresh state *)
Finish ==
    /\ pc \in {"responded", "enhanced_responded", "failed", "direct_done"}
    /\ pc' = "idle"
    /\ request' = Nil
    /\ enhanced_result' = Nil
    /\ solar_output' = Nil
    /\ roi_args' = Nil
    /\ financial_analysis_dict' = Nil
    /\ response' = Nil
    /\ UNCHANGED <<electricity_price_config, price_update>>

(* routes.py lines 188-191, electricity_price.py lines 23-44: the manual    *)
(* update endpoint stores the price it is given                            *)
UpdateManual(price) ==
    /\ pc = "idle"
    /\ electricity_price_config' = price
    /\ UNCHANGED price_update
    /\ UNCHANGED <<pc, request, enhanced_result, solar_output, roi_args,
                   financial_analysis_dict, response>>

(***************************************************************************)
(* Price updates running next to a request.  update_electricity_price      *)
(* opens the config file for writing, which empties it, and then dumps the *)
(* new content; other threads run between the two steps.                   *)
(***************************************************************************)

(* electricity_price.py lines 27-40: the file is opened with mode 'w'.     *)
(* replaced remembers the content the open call wiped out.                 *)
OpenConfig(path, new_price) ==
    /\ electricity_price_config' = Truncated
    /\ price_update' = [price_update EXCEPT ![path] =
                            [pc        |-> "writing",
                             new_price |-> new_price,
                             replaced  |-> electricity_price_config,
                             result    |-> ""]]

(* The run of the path ends without a write *)
EndWithoutUpdate(path, result) ==
    /\ price_update' = [price_update EXCEPT ![path] = NoUpdate(result)]
    /\ UNCHANGED electricity_price_config

(* What the path reports after a write *)
result_of_update(path) ==
    CASE path = "manual"   -> "200"
      [] path = "live"     -> "200"
      [] path = "periodic" -> "sleep"
      [] path = "api"      -> "True"

(* electricity_price.py lines 41-42, and the caller's return: routes.py    *)
(* lines 183, 191 and 200, electricity_price.py line 136                   *)
DumpConfig(path) ==
    /\ price_update[path].pc = "writing"
    /\ electricity_price_config' = price_update[path].new_price
    /\ price_update' = [price_update EXCEPT ![path] = NoUpdate(result_of_update(path))]
    /\ UNCHANGED <<pc, request, enhanced_result, solar_output, roi_args,
                   financial_analysis_dict, response>>

(* routes.py lines 188-190 *)
UpdatePriceManual(price) ==
    /\ price_update["manual"].pc = "idle"
    /\ OpenConfig("manual", price)
    /\ UNCHANGED <<pc, request, enhanced_result, solar_output, roi_args,
                   financial_analysis_dict, response>>

(* routes.py lines 178-185 *)
UpdatePriceLive(price) ==
    /\ price_update["live"].pc = "idle"
    /\ IF price_is_not_none(price)
       THEN OpenConfig("live", price)
       ELSE EndWithoutUpdate("live", "503")
    /\ UNCHANGED <<pc, request, enhanced_result, solar_output, roi_args,
                   financial_analysis_dict, response>>

(* routes.py lines 196-200: one pass of the updater thread's loop *)
PeriodicPriceUpdate(price) ==
    /\ price_update["periodic"].pc = "idle"
    /\ IF price_is_not_none(price)
       THEN OpenConfig("periodic", price)
       ELSE EndWithoutUpdate("periodic", "sleep")
    /\ UNCHANGED <<pc, request, enhanced_result, solar_output, roi_args,
                   financial_analysis_dict, response>>

(* electricity_price.py lines 124-142 *)
UpdatePriceFromApi(live_price) ==
    /\ price_update["api"].pc = "idle"
    /\ IF live_price_is_truthy(live_price)
       THEN OpenConfig("api", live_price)
       ELSE EndWithoutUpdate("api", "False")
    /\ UNCHANGED <<pc, request, enhanced_result, solar_output, roi_args,
                   financial_analysis_dict, response>>

(* What the price API answers, in EUR/MWh: no answer, or 100 *)
LatestPricesRaw == {None, Num(100)}

(* The requests served while prices are updated *)
ConcurrentRequests ==
    {[location |-> "Berlin", roof_area |-> Num(50), orientation |-> "south",
      budget |-> budget] : budget \in {None, Num(3625)}}

ConcurrentWeather ==
    [daily_irradiance_kwh_m2 |-> Rat(35, 10), seasonal_variations |-> flat_pattern]

NextConcurrent ==
    \/ \E req \in ConcurrentRequests : AnalyzeSolar(req, ConcurrentWeather)
    \/ AnalyzeRoi
    \/ AnalyzeUpdate
    \/ AnalyzeRespond
    \/ Finish
    \/ UpdatePriceManual(Zero)
    \/ \E raw \in LatestPricesRaw : UpdatePriceLive(fetch_live_electricity_price(raw))
    \/ \E raw \in LatestPricesRaw : PeriodicPriceUpdate(fetch_live_electricity_price(raw))
    \/ \E raw \in LatestPricesRaw : UpdatePriceFromApi(fetch_live_electricity_price(raw))
    \/ \E path \in UpdatePaths : DumpConfig(path)

ConcurrentSpec == Init /\ [][NextConcurrent]_vars

(***************************************************************************)
(* Requests and price updates one after the other                          *)
(***************************************************************************)
Next ==
    \/ \E roof_area \in RoofAreas, orientation \in Orientations, budget \in RequestBudgets,
          location \in Locations, weather_data \in WeatherData :
          AnalyzeSolar([location |-> location, roof_area |-> roof_area,
                        orientation |-> orientation, budget |-> budget], weather_data)
    \/ AnalyzeRoi
    \/ AnalyzeUpdate
    \/ AnalyzeRespond
    \/ \E req \in EnhancedRequests, weather_data \in WeatherData :
          AnalyzeEnhancedSolar(req, weather_data)
    \/ AnalyzeEnhancedRoi
    \/ AnalyzeEnhancedRespond
    \/ \E call \in DirectCalls, location \in Locations :
          DirectRoi([annual_kwh |-> call[3], system_capacity_kw |-> call[1]],
                    call[2], location, call[4])
    \/ \E roof_area \in DirectRoofAreas, orientation \in Orientations,
          weather_data \in WeatherData :
          DirectSolar(roof_area, orientation, weather_data)
    \/ Finish
    \/ \E price \in ElectricityPrices : UpdateManual(price)

Spec == Init /\ [][Next]_vars

(***************************************************************************)
(* What a finished call of calculate_roi is compared with: the arguments   *)
(* it received (roi_args) and the figures derived from them before any     *)
(* budget is looked at.                                                    *)
(***************************************************************************)
RoiCalled == roi_args # Nil /\ financial_analysis_dict # Nil

RoiReturned == RoiCalled /\ ~financial_analysis_dict.raised

original_capacity == roi_args.solar_output.system_capacity_kw

original_annual_kwh == roi_args.solar_output.annual_kwh

original_incentives == calculate_german_incentives(original_capacity, roi_args.location)

original_net_cost ==
    RSub(RMul(original_capacity, Num(1800)), original_incentives.total_incentives_eur)

BindingBudget ==
    /\ RoiCalled
    /\ ~IsNone(roi_args.budget)
    /\ RLt(Zero, roi_args.budget)
    /\ RLt(roi_args.budget, original_net_cost)

budget_over_net == RDiv(roi_args.budget, original_net_cost)

(* x * n for an integer n, 0 <= n < 10^8 *)
DecTimes(x, n) ==
    DecAdd(DecMulInt(DecMulInt(x, n \div 10000), 10000), DecMulInt(x, n % 10000))

(* tenths / 10 is quotient rounded to one decimal: the two differ by at     *)
(* most 0.05, that is 2 * |tenths * d - 10 * n| <= d, for d > 0             *)
IsQuotientToOneDecimal(tenths, n, d) ==
    LET diff == DecSub(DecTimes(d, tenths), DecMulInt(n, 10))
    IN  ~DecLt(d, DecMulInt(DecAbs(diff), 2))

(* C1: for a binding budget (budget > 0 and capacity * 1800 - total         *)
(* incentives > budget) calculate_roi multiplies the capacity and the       *)
(* annual kWh by budget / net_system_cost, and the incentive package it     *)
(* goes on with is calculate_german_incentives of the new capacity, not     *)
(* the original package times the factor.                                   *)
C1_ScaledByBudgetOverNet ==
    BindingBudget =>
        /\ ~financial_analysis_dict.raised
        /\ financial_analysis_dict.scaling_info.system_scaled
        /\ financial_analysis_dict.locals.scaling_factor = budget_over_net
        /\ financial_analysis_dict.locals.system_capacity_kw =
               RMul(original_capacity, budget_over_net)
        /\ financial_analysis_dict.locals.annual_kwh =
               RMul(original_annual_kwh, budget_over_net)
        /\ financial_analysis_dict.incentives =
               calculate_german_incentives(RMul(original_capacity, budget_over_net),
                                           roi_args.location)

(* A scaled system whose recomputed KfW benefit and feed-in tariff are not  *)
(* the original ones times the factor.                                      *)
C1_Witness ==
    /\ BindingBudget
    /\ ~financial_analysis_dict.raised
    /\ financial_analysis_dict.incentives.kfw_loan_benefit_eur #
           PyRound(RMul(original_incentives.kfw_loan_benefit_eur, budget_over_net), 2)
    /\ financial_analysis_dict.incentives.feed_in_tariff_eur_per_kwh #
           original_incentives.feed_in_tariff_eur_per_kwh

(* C2: calculate_roi scales nothing when budget is None, budget <= 0 or     *)
(* net_system_cost <= budget: system_scaled is false and the capacity, the  *)
(* annual kWh and the incentive package are those of the inputs.            *)
C2_NoScalingUnlessBinding ==
    (/\ RoiCalled
     /\ \/ IsNone(roi_args.budget)
        \/ RLe(roi_args.budget, Zero)
        \/ RLe(original_net_cost, roi_args.budget))
    =>
        /\ ~financial_analysis_dict.raised
        /\ ~financial_analysis_dict.scaling_info.system_scaled
        /\ financial_analysis_dict.locals.system_capacity_kw = original_capacity
        /\ financial_analysis_dict.locals.annual_kwh = original_annual_kwh
        /\ financial_analysis_dict.incentives = original_incentives
        /\ financial_analysis_dict.system_capacity_kw = PyRound(original_capacity, 2)
        /\ financial_analysis_dict.annual_kwh_adjusted = PyRound(original_annual_kwh, 1)

(* A positive budget equal to the net cost, left unscaled. *)
C2_Witness ==
    /\ RoiReturned
    /\ ~IsNone(roi_args.budget)
    /\ RLt(Zero, roi_args.budget)
    /\ roi_args.budget = original_net_cost
    /\ ~financial_analysis_dict.scaling_info.system_scaled
    /\ financial_analysis_dict.locals.system_capacity_kw = original_capacity

(* C3: for a binding budget the capacity calculate_roi goes on with is      *)
(* strictly smaller than the original capacity, and the recomputed          *)
(* total_incentives_eur is at most the original total_incentives_eur.       *)
C3_ScalingShrinks ==
    BindingBudget =>
        /\ ~financial_analysis_dict.raised
        /\ RLt(financial_analysis_dict.locals.system_capacity_kw, original_capacity)
        /\ RLe(financial_analysis_dict.incentives.total_incentives_eur,
               original_incentives.total_incentives_eur)

(* A system above the KfW cap scaled down to one below it. *)
C3_Witness ==
    /\ BindingBudget
    /\ ~financial_analysis_dict.raised
    /\ original_incentives.kfw_loan_benefit_eur = Num(10000)
    /\ RLt(financial_analysis_dict.incentives.kfw_loan_benefit_eur, Num(10000))
    /\ RLt(financial_analysis_dict.incentives.total_incentives_eur,
           original_incentives.total_incentives_eur)

(* C4: for a binding budget the scaling_info calculate_roi reports has      *)
(* 0 < scaling_factor < 1 and scaled_capacity_kw > 0, however small the     *)
(* budget or however close to the net cost, so that the /analyze route's    *)
(* capacity_factor = annual_kwh / (system_capacity_kw * 8760) never         *)
(* divides by zero and no request with a binding budget fails.              *)
C4_ReportedScalingUsable ==
    BindingBudget =>
        /\ ~financial_analysis_dict.raised
        /\ RLt(Zero, financial_analysis_dict.scaling_info.scaling_factor)
        /\ RLt(financial_analysis_dict.scaling_info.scaling_factor, Num(1))
        /\ RLt(Zero, financial_analysis_dict.scaling_info.scaled_capacity_kw)
        /\ pc # "failed"

(* /analyze answers 500: the reported capacity of a scaled system is 0.0    *)
(* and line 103 of routes.py divided by it.                                 *)
C4_Witness ==
    /\ BindingBudget
    /\ pc = "failed"
    /\ response = [status |-> 500]
    /\ financial_analysis_dict.scaling_info.scaled_capacity_kw = Zero
    /\ solar_output.system_capacity_kw = Zero

(* C5: with net_system_cost = capacity * 1800 - total incentives <= 0,      *)
(* calculate_roi scales nothing whatever the budget: it returns, with       *)
(* system_scaled false, and raises nothing.                                 *)
C5_NoScalingWhenNetCostNotPositive ==
    (RoiCalled /\ RLe(original_net_cost, Zero)) =>
        /\ ~financial_analysis_dict.raised
        /\ ~financial_analysis_dict.scaling_info.system_scaled
        /\ financial_analysis_dict.locals.system_capacity_kw = original_capacity
        /\ financial_analysis_dict.locals.annual_kwh = original_annual_kwh

(* A call with a positive budget and a net cost that is not positive. *)
C5_Witness ==
    /\ RoiReturned
    /\ RLe(original_net_cost, Zero)
    /\ ~IsNone(roi_args.budget)
    /\ RLt(Zero, roi_args.budget)
    /\ ~financial_analysis_dict.scaling_info.system_scaled

(* C6: when /analyze scales a system, every entry of the monthly series is  *)
(* the original entry times the factor applied to the annual production     *)
(* and the capacity (to the cent the route rounds to), the peak month is    *)
(* the same month as before, and peak_month_production is the old peak      *)
(* times that factor, within rounding.                                      *)
C6_MonthlySeriesScaledLikeAnnual ==
    (/\ pc \in {"analyze_respond", "responded"}
     /\ financial_analysis_dict.scaling_info.system_scaled)
    =>
        LET factor == financial_analysis_dict.locals.scaling_factor
            before == enhanced_result.monthly_outputs_kwh
            after  == solar_output.monthly_production
        IN  /\ \A month \in Months :
                   RLe(RAbs(RSub(after[month], RMul(before[month], factor))),
                       Rat(1, 100))
            /\ ArgMax(after) = enhanced_result.peak_month
            /\ RLe(RAbs(RSub(solar_output.peak_month_production,
                             RMul(enhanced_result.peak_month_production, factor))),
                   Rat(1, 100))

(* A scaled response whose monthly series peaks in another month than the   *)
(* unscaled one.                                                            *)
C6_Witness ==
    /\ pc = "responded"
    /\ financial_analysis_dict.scaling_info.system_scaled
    /\ ArgMax(solar_output.monthly_production) # enhanced_result.peak_month
    /\ response.solar_potential.peak_month_production = Zero

(* C7: for an annual production > 0 and a household consumption >= 0 or     *)
(* none, self_consumed_kwh + fed_in_kwh, as computed and as reported, is    *)
(* exactly the annual kWh (reported: annual_kwh_adjusted).                  *)
C7_SharesSumToAnnual ==
    (/\ RoiReturned
     /\ RLt(Zero, original_annual_kwh)
     /\ \/ IsNone(roi_args.household_consumption)
        \/ RLe(Zero, roi_args.household_consumption))
    =>
        /\ RAdd(financial_analysis_dict.locals.self_consumed_kwh,
                financial_analysis_dict.locals.fed_in_kwh) =
               financial_analysis_dict.locals.annual_kwh
        /\ RAdd(financial_analysis_dict.self_consumed_kwh,
                financial_analysis_dict.fed_in_kwh) =
               financial_analysis_dict.annual_kwh_adjusted

(* 1000.13 kWh, no household figure: 400.1 + 600.1 reported beside 1000.1 *)
C7_Witness ==
    /\ RoiReturned
    /\ original_annual_kwh = Rat(100013, 100)
    /\ financial_analysis_dict.self_consumed_kwh = Rat(4001, 10)
    /\ financial_analysis_dict.fed_in_kwh = Rat(6001, 10)
    /\ financial_analysis_dict.annual_kwh_adjusted = Rat(10001, 10)

(***************************************************************************)
(* Properties of calculate_self_consumption_rate and of                    *)
(* calculate_german_incentives, read off the calls calculate_roi makes:    *)
(* the first with the production it goes on with and the household figure  *)
(* it was given, the second with the capacity it goes on with.             *)
(***************************************************************************)
(* C8: whatever the annual production and the household consumption, none  *)
(* included, the self_consumption_rate calculate_self_consumption_rate      *)
(* returns lies in [0.20, 0.95].                                            *)
C8_SelfConsumptionRateBounded ==
    RoiReturned =>
        /\ RLe(Rat(20, 100),
               financial_analysis_dict.consumption_analysis.self_consumption_rate)
        /\ RLe(financial_analysis_dict.consumption_analysis.self_consumption_rate,
               Rat(95, 100))

(* A household so small beside the production that the dampened rate is    *)
(* below 0.20 and the floor decides.                                       *)
C8_Witness ==
    /\ RoiReturned
    /\ financial_analysis_dict.consumption_analysis.method = "household_based"
    /\ RLt(RMul(financial_analysis_dict.consumption_analysis.raw_rate, Rat(90, 100)),
           Rat(20, 100))
    /\ financial_analysis_dict.consumption_analysis.self_consumption_rate = Rat(20, 100)

(* C9: the feed-in tariff is the base 0.082 up to 10 kW (10.0 included),    *)
(* 0.071 above 10 and up to 40 kW (10.01 and 40.0 included), 0.057 above    *)
(* 40 kW, times the location's incentive_multiplier in every tier (as       *)
(* returned: to the four decimals the function rounds to).                  *)
C9_TariffTiers ==
    RoiReturned =>
        LET capacity   == financial_analysis_dict.locals.system_capacity_kw
            tier       == IF RLe(capacity, Num(10)) THEN Rat(82, 1000)
                          ELSE IF RLe(capacity, Num(40)) THEN Rat(71, 1000)
                          ELSE Rat(57, 1000)
            multiplier ==
                IF roi_args.location = "Munich" THEN Rat(115, 100)
                ELSE IF roi_args.location = "Hamburg" THEN Rat(105, 100)
                ELSE Num(1)
        IN  RLe(RAbs(RSub(financial_analysis_dict.incentives.feed_in_tariff_eur_per_kwh,
                          RMul(tier, multiplier))),
                Rat(5, 100000))

(* Exactly 10 kW in Munich: 0.082 * 1.15 *)
C9_Witness ==
    /\ RoiReturned
    /\ financial_analysis_dict.locals.system_capacity_kw = Num(10)
    /\ roi_args.location = "Munich"
    /\ financial_analysis_dict.incentives.feed_in_tariff_eur_per_kwh = Rat(943, 10000)

(* C10: for a capacity >= 0, kfw_loan_benefit_eur is min(capacity * 200,    *)
(* 10000), never above 10000, regional_incentive_eur is capacity * 150      *)
(* without a cap, and total_incentives_eur is their sum (each as returned:  *)
(* to the cent); 10 kW at multiplier 1.0 gives 0.082, 2000, 1500, 3500.     *)
C10_IncentiveAmounts ==
    (RoiReturned /\ RLe(Zero, financial_analysis_dict.locals.system_capacity_kw)) =>
        LET capacity == financial_analysis_dict.locals.system_capacity_kw
            package  == financial_analysis_dict.incentives
            kfw      == IF RLe(RMul(capacity, Num(200)), Num(10000))
                        THEN RMul(capacity, Num(200)) ELSE Num(10000)
            regional == RMul(capacity, Num(150))
        IN  /\ package.kfw_loan_benefit_eur = PyRound(kfw, 2)
            /\ RLe(package.kfw_loan_benefit_eur, Num(10000))
            /\ package.regional_incentive_eur = PyRound(regional, 2)
            /\ package.total_incentives_eur = PyRound(RAdd(kfw, regional), 2)
            /\ (capacity = Num(10) /\ roi_args.location \in {"Berlin", "Cologne"}) =>
                   package = [feed_in_tariff_eur_per_kwh |-> Rat(82, 1000),
                              kfw_loan_benefit_eur       |-> Num(2000),
                              regional_incentive_eur     |-> Num(1500),
                              total_incentives_eur       |-> Num(3500)]

(* 60 kW: the KfW benefit stops at 10000 while the regional incentive is   *)
(* 9000.                                                                   *)
C10_Witness ==
    /\ RoiReturned
    /\ financial_analysis_dict.locals.system_capacity_kw = Num(60)
    /\ financial_analysis_dict.incentives.kfw_loan_benefit_eur = Num(10000)
    /\ financial_analysis_dict.incentives.regional_incentive_eur = Num(9000)
    /\ financial_analysis_dict.incentives.total_incentives_eur = Num(19000)

(* C11: whenever annual_savings <= 0 calculate_roi returns payback_period   *)
(* = 999 and completes, its ROI and IRR figures being numbers; whenever     *)
(* annual_savings > 0 the payback_period it returns is total_investment /   *)
(* annual_savings (to the one decimal of the returned field).               *)
C11_PaybackSentinel ==
    RoiCalled =>
        /\ ~financial_analysis_dict.raised
        /\ financial_analysis_dict.roi_percentage[2] > 0
        /\ financial_analysis_dict.irr_percentage[2] > 0
        /\ financial_analysis_dict.payback_period[2] > 0
        /\ IF DecSign(financial_analysis_dict.locals.annual_savings) <= 0
           THEN financial_analysis_dict.payback_period = Num(999)
           ELSE /\ financial_analysis_dict.payback_period[1] > 0
                /\ financial_analysis_dict.payback_period[2] \in {1, 2, 5, 10}
                /\ IsQuotientToOneDecimal(
                       financial_analysis_dict.payback_period[1]
                           * (10 \div financial_analysis_dict.payback_period[2]),
                       DecFromRat(financial_analysis_dict.locals.total_investment),
                       financial_analysis_dict.locals.annual_savings)

(* A negative electricity price outweighs the feed-in income: the savings   *)
(* are negative and the payback period is the sentinel.                     *)
C11_Witness ==
    /\ RoiReturned
    /\ DecSign(financial_analysis_dict.locals.annual_savings) < 0
    /\ RLt(Zero, financial_analysis_dict.locals.annual_kwh)
    /\ financial_analysis_dict.payback_period = Num(999)

(* The net cost of the system calculate_roi went on with: its capacity     *)
(* times 1800 minus the total of the incentive package of that capacity.    *)
post_scaling_net_cost ==
    RSub(RMul(financial_analysis_dict.locals.system_capacity_kw, Num(1800)),
         calculate_german_incentives(financial_analysis_dict.locals.system_capacity_kw,
                                     roi_args.location).total_incentives_eur)

(* C12: the total_investment calculate_roi uses and reports is              *)
(* max(500, capacity * 1800 - total_incentives_eur) of the post-scaling     *)
(* capacity and incentives, and is never below 500.                         *)
C12_TotalInvestmentFloored ==
    RoiCalled =>
        /\ ~financial_analysis_dict.raised
        /\ financial_analysis_dict.locals.total_investment =
               RMax(Num(500), post_scaling_net_cost)
        /\ financial_analysis_dict.total_investment =
               PyRound(RMax(Num(500), post_scaling_net_cost), 2)
        /\ RLe(Num(500), financial_analysis_dict.locals.total_investment)
        /\ RLe(Num(500), financial_analysis_dict.total_investment)

(* A system scaled down to a budget below 500 EUR: the floor applies. *)
C12_Witness ==
    /\ RoiReturned
    /\ financial_analysis_dict.scaling_info.system_scaled
    /\ RLt(Zero, post_scaling_net_cost)
    /\ RLt(post_scaling_net_cost, Num(500))
    /\ financial_analysis_dict.total_investment = Num(500)

(* The figures of the system calculate_roi went on with, from its capacity, *)
(* its annual kWh and the self-consumption rate of the analysis.            *)
post_scaling_self_consumed_kwh ==
    RMul(financial_analysis_dict.locals.annual_kwh,
         financial_analysis_dict.consumption_analysis.self_consumption_rate)

post_scaling_fed_in_kwh ==
    RMul(financial_analysis_dict.locals.annual_kwh,
         RSub(Num(1), financial_analysis_dict.consumption_analysis.self_consumption_rate))

post_scaling_tariff ==
    calculate_german_incentives(financial_analysis_dict.locals.system_capacity_kw,
                                roi_args.location).feed_in_tariff_eur_per_kwh

expected_electricity_savings ==
    DecMulRat(DecFromRat(post_scaling_self_consumed_kwh), get_electricity_price)

expected_feed_in_income ==
    DecMulRat(DecFromRat(post_scaling_fed_in_kwh), post_scaling_tariff)

(* C13: annual_savings of calculate_roi is self_consumed_kwh *              *)
(* electricity_rate + fed_in_kwh * feed_in_tariff_eur_per_kwh, the kWh      *)
(* figures and the tariff being those of the post-scaling system.           *)
C13_AnnualSavingsFormula ==
    RoiCalled =>
        /\ ~financial_analysis_dict.raised
        /\ financial_analysis_dict.locals.electricity_rate = get_electricity_price
        /\ financial_analysis_dict.locals.annual_savings =
               DecAdd(expected_electricity_savings, expected_feed_in_income)
        /\ financial_analysis_dict.annual_savings =
               round_amount(DecAdd(expected_electricity_savings, expected_feed_in_income))
        /\ financial_analysis_dict.electricity_savings_eur =
               round_amount(expected_electricity_savings)
        /\ financial_analysis_dict.feed_in_income_eur =
               round_amount(expected_feed_in_income)

(* A system scaled across a tariff tier: its feed-in income is paid at the  *)
(* tariff of the smaller system.                                            *)
C13_Witness ==
    /\ RoiReturned
    /\ financial_analysis_dict.scaling_info.system_scaled
    /\ post_scaling_tariff # original_incentives.feed_in_tariff_eur_per_kwh
    /\ DecSign(financial_analysis_dict.locals.feed_in_income) > 0
    /\ DecSign(financial_analysis_dict.locals.annual_electricity_savings) > 0
    /\ financial_analysis_dict.annual_savings =
           RAdd(financial_analysis_dict.electricity_savings_eur,
                financial_analysis_dict.feed_in_income_eur)

(* tenths / 10 is ((annual_savings * 25) - total_investment) /              *)
(* total_investment * 100 to one decimal: the two differ by at most 0.05,   *)
(* that is |tenths * t - 1000 * (25 * s - t)| <= t / 2.  The sides are      *)
(* compared after the sign of tenths is taken out.                          *)
IsLifetimeReturn(tenths, s, t) ==
    LET gain == DecSub(DecMulInt(s, 25), t)
    IN  IF tenths < 0
        THEN IsQuotientToOneDecimal(-tenths, DecMulInt(DecNeg(gain), 100), t)
        ELSE IsQuotientToOneDecimal(tenths, DecMulInt(gain, 100), t)

(* C14: roi_percentage of calculate_roi is ((annual_savings * 25) -         *)
(* total_investment) / total_investment * 100 (to the one decimal of the    *)
(* returned field): the undiscounted return over 25 years of the            *)
(* undegraded savings, no maintenance cost deducted.                        *)
C14_RoiPercentageFormula ==
    RoiCalled =>
        /\ ~financial_analysis_dict.raised
        /\ financial_analysis_dict.roi_percentage[2] \in {1, 2, 5, 10}
        /\ IsLifetimeReturn(
               financial_analysis_dict.roi_percentage[1]
                   * (10 \div financial_analysis_dict.roi_percentage[2]),
               financial_analysis_dict.locals.annual_savings,
               DecFromRat(financial_analysis_dict.locals.total_investment))

(* A system above the floor that pays back within its lifetime *)
C14_Witness ==
    /\ RoiReturned
    /\ DecSign(financial_analysis_dict.locals.annual_savings) > 0
    /\ RLt(Num(500), financial_analysis_dict.locals.total_investment)
    /\ RLt(Zero, financial_analysis_dict.roi_percentage)
    /\ RLt(financial_analysis_dict.payback_period, Num(25))

(* The three figures before calculate_self_consumption_rate and            *)
(* calculate_german_incentives round them, for the system calculate_roi     *)
(* went on with.                                                            *)
unrounded_self_consumption_rate ==
    IF no_household_figure(roi_args.household_consumption) THEN Rat(40, 100)
    ELSE final_rate(adjusted_rate(
             raw_self_consumption(financial_analysis_dict.locals.annual_kwh,
                                  roi_args.household_consumption)))

unrounded_tariff ==
    RMul(base_tariff(financial_analysis_dict.locals.system_capacity_kw),
         get_location_specific_factors(roi_args.location).incentive_multiplier)

unrounded_total_incentives ==
    RAdd(kfw_benefit(financial_analysis_dict.locals.system_capacity_kw),
         regional_incentive(financial_analysis_dict.locals.system_capacity_kw))

(* C15: the feed-in tariff, the total incentives and the self-consumption   *)
(* rate that calculate_roi computes total_investment and annual_savings     *)
(* from are unrounded; only the fields of the returned result are rounded.  *)
C15_NothingRoundedMidway ==
    RoiReturned =>
        /\ financial_analysis_dict.locals.self_consumption_rate =
               unrounded_self_consumption_rate
        /\ financial_analysis_dict.locals.self_consumed_kwh =
               RMul(financial_analysis_dict.locals.annual_kwh,
                    unrounded_self_consumption_rate)
        /\ financial_analysis_dict.locals.feed_in_income =
               DecMulRat(DecFromRat(financial_analysis_dict.locals.fed_in_kwh),
                         unrounded_tariff)
        /\ financial_analysis_dict.locals.total_investment =
               RMax(Num(500),
                    RSub(financial_analysis_dict.locals.base_installation_cost,
                         unrounded_total_incentives))

(* The rate 0.2784... of a household is used as 0.278, and the amounts      *)
(* returned are not those of the unrounded rate.                            *)
C15_Witness ==
    /\ RoiReturned
    /\ ~no_household_figure(roi_args.household_consumption)
    /\ financial_analysis_dict.locals.self_consumption_rate =
           PyRound(unrounded_self_consumption_rate, 3)
    /\ financial_analysis_dict.locals.self_consumption_rate #
           unrounded_self_consumption_rate
    /\ financial_analysis_dict.self_consumed_kwh #
           PyRound(RMul(financial_analysis_dict.locals.annual_kwh,
                        unrounded_self_consumption_rate), 1)
    /\ financial_analysis_dict.electricity_savings_eur #
           round_amount(DecMulRat(
               DecFromRat(RMul(financial_analysis_dict.locals.annual_kwh,
                               unrounded_self_consumption_rate)),
               get_electricity_price))

(* A call of calculate_roi that was given a household consumption figure    *)
(* (line 31: a figure that is set and positive).                            *)
HouseholdSupplied == RoiReturned /\ ~no_household_figure(roi_args.household_consumption)

raw_rate_of_call ==
    IF RLe(roi_args.household_consumption, financial_analysis_dict.locals.annual_kwh)
    THEN RDiv(roi_args.household_consumption, financial_analysis_dict.locals.annual_kwh)
    ELSE Num(1)

(* The rate returned for a rate r before clamping: r clamped to            *)
(* [0.20, 0.95], to three decimals                                          *)
ClampedRate(r) ==
    PyRound(IF RLt(r, Rat(20, 100)) THEN Rat(20, 100)
            ELSE IF RLt(Rat(95, 100), r) THEN Rat(95, 100)
            ELSE r, 3)

(* C17: before clamping, the self-consumption rate is the raw rate times    *)
(* 0.85 when raw >= 0.8, times 0.80 when 0.5 <= raw < 0.8 and times 0.90    *)
(* when raw < 0.5; the boundaries 0.8 and 0.5 belong to the upper band.     *)
C17_DampeningBands ==
    HouseholdSupplied =>
        financial_analysis_dict.consumption_analysis.self_consumption_rate =
            ClampedRate(
                IF RLe(Rat(8, 10), raw_rate_of_call)
                THEN RMul(raw_rate_of_call, Rat(85, 100))
                ELSE IF RLe(Rat(5, 10), raw_rate_of_call)
                THEN RMul(raw_rate_of_call, Rat(80, 100))
                ELSE RMul(raw_rate_of_call, Rat(90, 100)))

(* A household that uses exactly 0.8 of the production: rate 0.8 * 0.85 *)
C17_Witness ==
    /\ HouseholdSupplied
    /\ raw_rate_of_call = Rat(8, 10)
    /\ financial_analysis_dict.consumption_analysis.self_consumption_rate = Rat(68, 100)

(* C18: without a household consumption figure (none given, or one that is  *)
(* not positive) calculate_self_consumption_rate returns the rate 0.40      *)
(* with the method tag default_average, whatever the annual production.     *)
C18_DefaultRate ==
    (/\ RoiCalled
     /\ \/ IsNone(roi_args.household_consumption)
        \/ RLe(roi_args.household_consumption, Zero))
    =>
        /\ ~financial_analysis_dict.raised
        /\ financial_analysis_dict.consumption_analysis.self_consumption_rate = Rat(40, 100)
        /\ financial_analysis_dict.consumption_analysis.method = "default_average"
        /\ IsNone(financial_analysis_dict.consumption_analysis.household_coverage)
        /\ financial_analysis_dict.locals.self_consumption_rate = Rat(40, 100)
        /\ financial_analysis_dict.self_consumption_rate = Num(40)

(* The default rate for a large production, 40 % of which is self-consumed *)
C18_Witness ==
    /\ RoiReturned
    /\ IsNone(roi_args.household_consumption)
    /\ RLt(Num(30000), financial_analysis_dict.locals.annual_kwh)
    /\ financial_analysis_dict.consumption_analysis.method = "default_average"
    /\ financial_analysis_dict.locals.self_consumed_kwh =
           RMul(financial_analysis_dict.locals.annual_kwh, Rat(40, 100))

(* A finished call of calculate_annual_output_enhanced *)
SolarReturned == enhanced_result # Nil /\ ~enhanced_result.raised

(* The 12 monthly outputs added up, each to the cent: the sum is within     *)
(* 12 * 0.005 = 0.06 of sum(monthly_outputs.values()).                      *)
sum_of_monthly_outputs ==
    SumValues([m \in Months |-> PyRound(enhanced_result.monthly_outputs_kwh[m], 2)], 1, 12)

(* C19: for every seasonal pattern, an empty one and one that lacks the     *)
(* entry of a month included, the 12 monthly outputs of                     *)
(* calculate_annual_output_enhanced sum to the annual output:               *)
(* |sum(monthly) - annual| < 0.01 * annual (here with the 0.06 that adding  *)
(* to the cent can move the sum by, in favour of the claim).                *)
C19_MonthlySumsToAnnual ==
    (SolarReturned /\ RLt(Zero, enhanced_result.calculation_parameters.roof_area_m2)) =>
        RLt(RAbs(RSub(sum_of_monthly_outputs, enhanced_result.annual_output_kwh)),
            RAdd(RMul(Rat(1, 100), enhanced_result.annual_output_kwh), Rat(6, 100)))

(* The months of a pattern without a December entry: December gets the      *)
(* factor 1.0 of an average month, more than June, and the year adds up to  *)
(* 12/11 of the annual output.                                              *)
C19_Witness ==
    /\ SolarReturned
    /\ RLt(enhanced_result.monthly_outputs_kwh[11], enhanced_result.monthly_outputs_kwh[12])
    /\ RLt(RMul(Rat(109, 100), enhanced_result.annual_output_kwh), sum_of_monthly_outputs)
    /\ RLt(sum_of_monthly_outputs, RMul(Rat(110, 100), enhanced_result.annual_output_kwh))

(* The daily irradiance the calculation uses for weather data w *)
daily_irradiance_of(w) ==
    IF IsNone(w.daily_irradiance_kwh_m2) THEN Rat(35, 10) ELSE w.daily_irradiance_kwh_m2

(* (daily_irradiance / 1.4) * roof_area * 0.20 * 0.85 * orientation_factor * 365 *)
expected_annual_output(daily_irradiance, roof_area, orientation) ==
    RMul(RMul(RMul(RMul(RMul(RDiv(daily_irradiance, Rat(14, 10)), roof_area), Rat(20, 100)),
                   Rat(85, 100)), ORIENTATION_FACTORS(orientation)), Num(365))

(* The result for roof area 50, orientation south, daily irradiance 3.5 and *)
(* a flat seasonal pattern                                                  *)
flat_south_result ==
    calculate_annual_output_enhanced(Num(50), "south",
        [daily_irradiance_kwh_m2 |-> Rat(35, 10), seasonal_variations |-> flat_pattern])

(* C20: the annual output calculate_annual_output_enhanced returns is       *)
(* (daily_irradiance / 1.4) * roof_area * 0.20 * 0.85 * orientation_factor  *)
(* * 365, to two decimals, for the daily irradiance of the weather data,    *)
(* and the capacity is roof_area * 0.20, to one decimal; for roof area 50,  *)
(* south, irradiance 3.5 and a flat pattern the annual output is 7756.25    *)
(* kWh, the twelve months are equal and the capacity is 10.0 kW.            *)
C20_AnnualOutputFormula ==
    /\ SolarReturned =>
           /\ enhanced_result.annual_output_kwh =
                  PyRound(expected_annual_output(
                              daily_irradiance_of(enhanced_result.weather_analysis),
                              enhanced_result.calculation_parameters.roof_area_m2,
                              enhanced_result.calculation_parameters.orientation), 2)
           /\ enhanced_result.system_capacity_kw =
                  PyRound(RMul(enhanced_result.calculation_parameters.roof_area_m2,
                               Rat(20, 100)), 1)
    /\ flat_south_result.annual_output_kwh = Rat(775625, 100)
    /\ \A m \in Months :
           flat_south_result.monthly_outputs_kwh[m] = flat_south_result.monthly_outputs_kwh[1]
    /\ flat_south_result.system_capacity_kw = Num(10)

(* The example has been computed: 7756.25 kWh in twelve equal months of a   *)
(* 10 kW system on a south roof of 50 m2.                                   *)
C20_Witness ==
    /\ SolarReturned
    /\ enhanced_result.calculation_parameters.roof_area_m2 = Num(50)
    /\ enhanced_result.calculation_parameters.orientation = "south"
    /\ enhanced_result.weather_analysis.daily_irradiance_kwh_m2 = Rat(35, 10)
    /\ enhanced_result.weather_analysis.seasonal_variations = flat_pattern
    /\ enhanced_result.annual_output_kwh = Rat(775625, 100)
    /\ enhanced_result.system_capacity_kw = Num(10)
    /\ \A m \in Months :
           enhanced_result.monthly_outputs_kwh[m] = RDiv(Rat(775625, 100), Num(12))

(* C30: whenever a household consumption figure H > 0 is supplied, the      *)
(* energy calculate_roi counts as self-consumed, annual_kwh *               *)
(* self_consumption_rate, does not exceed H.                                *)
C30_SelfConsumedWithinHousehold ==
    HouseholdSupplied =>
        RLe(financial_analysis_dict.locals.self_consumed_kwh, roi_args.household_consumption)

(* A production of more than five times the household's consumption: the    *)
(* rate is held at the floor of 0.20 and a fifth of the production, more    *)
(* than the household uses, counts as self-consumed.                        *)
C30_Witness ==
    /\ HouseholdSupplied
    /\ RLt(RMul(Num(5), roi_args.household_consumption),
           financial_analysis_dict.locals.annual_kwh)
    /\ financial_analysis_dict.locals.self_consumption_rate = Rat(20, 100)
    /\ RLt(roi_args.household_consumption, financial_analysis_dict.locals.self_consumed_kwh)
    /\ RLt(roi_args.household_consumption, financial_analysis_dict.self_consumed_kwh)

(* The annual kWh calculate_roi goes on with: the production it was given,  *)
(* times budget / net cost when the budget binds.                           *)
post_scaling_annual_kwh ==
    IF BindingBudget THEN RMul(original_annual_kwh, budget_over_net) ELSE original_annual_kwh

(* C25: the CO2 reduction calculate_roi reports is the post-scaling annual  *)
(* kWh * 0.401 / 1000 tons per year (to two decimals), and the lifetime     *)
(* figure is that yearly figure times 25 (to one decimal), no degradation   *)
(* applied: the two returned figures differ by the factor 25 up to their    *)
(* rounding, 25 * 0.005 + 0.05.                                             *)
C25_Co2Reduction ==
    RoiReturned =>
        /\ financial_analysis_dict.co2_reduction =
               PyRoundScaled(post_scaling_annual_kwh, 401, 1000000, 2)
        /\ financial_analysis_dict.co2_reduction_lifetime =
               PyRoundScaled(post_scaling_annual_kwh, 401 * 25, 1000000, 1)
        /\ RLe(RAbs(RSub(financial_analysis_dict.co2_reduction_lifetime,
                         RMul(financial_analysis_dict.co2_reduction, Num(25)))),
               Rat(175, 1000))

(* A system scaled down to its budget: the CO2 figures are those of the     *)
(* scaled production, below those of the production the call was given.     *)
C25_Witness ==
    /\ RoiReturned
    /\ BindingBudget
    /\ RLt(Zero, financial_analysis_dict.co2_reduction)
    /\ RLt(financial_analysis_dict.co2_reduction,
           PyRoundScaled(original_annual_kwh, 401, 1000000, 2))
    /\ RLt(Num(1), financial_analysis_dict.co2_reduction_lifetime)

(* C29: whenever calculate_roi scales the system for a budget B > 0, the    *)
(* total_investment it uses and reports is at most max(500, B), up to the   *)
(* cent the rounded incentive amounts can move it by: the net cost of the   *)
(* scaled system, with its own incentives, fits the budget, also for        *)
(* capacities above 50 kW, where the KfW benefit is capped.                 *)
C29_ScaledInvestmentWithinBudget ==
    (RoiReturned /\ financial_analysis_dict.scaling_info.system_scaled) =>
        /\ RLt(Zero, roi_args.budget)
        /\ RLe(financial_analysis_dict.locals.total_investment,
               RAdd(RMax(Num(500), roi_args.budget), Rat(1, 100)))
        /\ RLe(financial_analysis_dict.total_investment,
               RAdd(RMax(Num(500), roi_args.budget), Rat(1, 100)))

(* A system of more than 50 kW scaled to a budget: the capped KfW benefit   *)
(* shrinks less than the system does, and the scaled net cost stays below   *)
(* the budget.                                                              *)
C29_Witness ==
    /\ RoiReturned
    /\ financial_analysis_dict.scaling_info.system_scaled
    /\ RLt(Num(50), original_capacity)
    /\ RLt(Num(500), roi_args.budget)
    /\ RLt(financial_analysis_dict.total_investment, roi_args.budget)
    /\ RLt(Num(500), financial_analysis_dict.total_investment)

(* The /analyze request has passed lines 91-103 of the route *)
AnalyzeUpdated == pc \in {"analyze_respond", "responded"}

(* C24: when budget scaling applies, the solar_output record that existed   *)
(* before calculate_roi was called still holds its original values          *)
(* (annual_kwh, system_capacity_kw, monthly_production, peak, capacity      *)
(* factor, daily average) at the end of the request.                       *)
C24_PreScalingEstimateKept ==
    (AnalyzeUpdated /\ financial_analysis_dict.scaling_info.system_scaled) =>
        /\ solar_output.annual_kwh = enhanced_result.annual_output_kwh
        /\ solar_output.system_capacity_kw = enhanced_result.system_capacity_kw
        /\ solar_output.monthly_production = enhanced_result.monthly_outputs_kwh
        /\ solar_output.peak_month_production = enhanced_result.peak_month_production
        /\ solar_output.capacity_factor = enhanced_result.capacity_factor
        /\ solar_output.daily_average = enhanced_result.daily_average_kwh

(* The response of a scaled request: solar_output, the dict calculate_roi   *)
(* was called with, now holds the scaled annual kWh and capacity.           *)
C24_Witness ==
    /\ pc = "responded"
    /\ financial_analysis_dict.scaling_info.system_scaled
    /\ roi_args.solar_output.annual_kwh = enhanced_result.annual_output_kwh
    /\ solar_output.annual_kwh = financial_analysis_dict.scaling_info.scaled_annual_kwh
    /\ solar_output.system_capacity_kw = financial_analysis_dict.scaling_info.scaled_capacity_kw
    /\ RLt(solar_output.annual_kwh, enhanced_result.annual_output_kwh)
    /\ RLt(solar_output.system_capacity_kw, enhanced_result.system_capacity_kw)

(* C21: for every roof_area <= 0, zero and negative alike,                  *)
(* calculate_annual_output_enhanced fails with an error and returns no      *)
(* estimate: an estimate that was returned is one for a roof area > 0.      *)
C21_NoEstimateWithoutRoof ==
    SolarReturned => RLt(Zero, enhanced_result.calculation_parameters.roof_area_m2)

(* An estimate returned for a negative roof area: a negative capacity and   *)
(* a negative annual output.                                                *)
C21_Witness ==
    /\ SolarReturned
    /\ RLt(enhanced_result.calculation_parameters.roof_area_m2, Zero)
    /\ RLt(enhanced_result.annual_output_kwh, Zero)
    /\ RLt(enhanced_result.system_capacity_kw, Zero)

(* C22: if the weather result for the requested mode lacks the daily        *)
(* irradiance field, or the entry for the mode, the calculation fails; it   *)
(* never substitutes a default irradiance and returns an estimate: an       *)
(* estimate that was returned rests on an irradiance the weather data held. *)
C22_NoDefaultIrradiance ==
    SolarReturned => ~IsNone(enhanced_result.weather_analysis.daily_irradiance_kwh_m2)

(* An estimate returned for weather data without any field: it was computed *)
(* from 3.5 kWh/m2 a day and a flat year.                                   *)
C22_Witness ==
    /\ SolarReturned
    /\ IsNone(enhanced_result.weather_analysis.daily_irradiance_kwh_m2)
    /\ enhanced_result.weather_analysis.seasonal_variations = empty_pattern
    /\ enhanced_result.calculation_parameters.daily_irradiance_peak = Rat(35, 10)
    /\ enhanced_result.calculation_parameters.roof_area_m2 = Num(50)
    /\ enhanced_result.calculation_parameters.orientation = "south"
    /\ enhanced_result.annual_output_kwh = Rat(775625, 100)

(* A response of /analyze or /analyze-enhanced to a request whose system    *)
(* calculate_roi scaled                                                     *)
ScaledResponse ==
    /\ pc \in {"responded", "enhanced_responded"}
    /\ financial_analysis_dict.scaling_info.system_scaled

(* C26: in every response of /analyze and /analyze-enhanced for which       *)
(* calculate_roi reported system_scaled = true, the production returned is  *)
(* that of the scaled system the financial figures were computed for: the   *)
(* annual kWh returned is the scaled annual kWh.                            *)
C26_ProductionMatchesFinancials ==
    ScaledResponse =>
        response.solar_potential.annual_kwh =
            financial_analysis_dict.scaling_info.scaled_annual_kwh

(* A response of /analyze-enhanced that pairs the production and capacity   *)
(* of the full roof with the investment of the system scaled to the budget. *)
C26_Witness ==
    /\ pc = "enhanced_responded"
    /\ financial_analysis_dict.scaling_info.system_scaled
    /\ response.solar_potential.annual_kwh = enhanced_result.annual_output_kwh
    /\ RLt(financial_analysis_dict.scaling_info.scaled_annual_kwh,
           response.solar_potential.annual_kwh)
    /\ RLt(financial_analysis_dict.scaling_info.scaled_capacity_kw,
           response.solar_potential.system_capacity_kw)
    /\ response.financial_analysis.total_investment = request.budget

(* The price-dependent figures calculate_roi returns for the unrounded      *)
(* quantities loc of a call and the electricity rate, lines 159-173 and     *)
(* 182-195                                                                  *)
figures_from_rate(loc, es, total_investment) ==
    [electricity_rate_eur_per_kwh |-> PyRound(loc.electricity_rate, 3),
     electricity_savings_eur      |-> round_amount(es),
     annual_savings               |-> round_amount(DecAdd(es, loc.feed_in_income)),
     payback_period               |->
         payback_period(DecAdd(es, loc.feed_in_income), loc.total_investment),
     roi_percentage               |->
         roi_percentage(DecAdd(es, loc.feed_in_income), total_investment),
     irr_percentage               |->
         irr_percentage(DecAdd(es, loc.feed_in_income), total_investment)]

figures_of_request(loc) ==
    figures_from_rate(loc,
                      DecMulRat(DecFromRat(loc.self_consumed_kwh), loc.electricity_rate),
                      DecFromRat(loc.total_investment))

(* The /analyze request has its financial analysis *)
AnalyzeRoiReturned == pc \in {"analyze_update", "analyze_respond", "responded"}

(* C23: under any interleaving of an /analyze request with price updates    *)
(* (manual endpoint, live endpoint, updater thread, update_price_from_api)  *)
(* the electricity price is read once per request, when calculate_roi runs, *)
(* and every price-dependent figure of the request (the electricity         *)
(* savings, the annual savings, payback, ROI, IRR, the reported             *)
(* electricity rate and the price figures of the report) is derived from    *)
(* that one value, whatever the stored price has become since.              *)
(* The step in which calculate_roi runs reads the price as it is stored     *)
(* then, and no later step of the request changes the financial analysis.   *)
(* The NPV of line 174 is a function of annual_savings alone.               *)
C23_PriceReadOncePerRequest ==
    /\ [](AnalyzeRoiReturned =>
              LET fin == financial_analysis_dict
                  figures == figures_of_request(financial_analysis_dict.locals)
              IN  /\ fin.electricity_rate_eur_per_kwh = figures.electricity_rate_eur_per_kwh
                  /\ fin.electricity_savings_eur = figures.electricity_savings_eur
                  /\ fin.annual_savings = figures.annual_savings
                  /\ fin.payback_period = figures.payback_period
                  /\ fin.roi_percentage = figures.roi_percentage
                  /\ fin.irr_percentage = figures.irr_percentage
                  /\ pc = "responded" =>
                         /\ response.feasibility_report.electricity_rate_eur_per_kwh =
                                PyRound(fin.locals.electricity_rate, 3)
                         /\ response.feasibility_report.annual_savings = fin.annual_savings
                         /\ response.feasibility_report.payback_period = fin.payback_period)
    /\ [][/\ (pc = "analyze_roi" /\ pc' = "analyze_update") =>
                 financial_analysis_dict'.locals.electricity_rate = get_electricity_price
          /\ (AnalyzeRoiReturned /\ pc' # "idle") =>
                 financial_analysis_dict' = financial_analysis_dict]_vars

(* A response whose figures rest on the price 0.34 read by calculate_roi,   *)
(* while the manual endpoint has stored another price since.                *)
C23_Witness ==
    /\ pc = "responded"
    /\ price_update["manual"].result = "200"
    /\ electricity_price_config = Zero
    /\ financial_analysis_dict.locals.electricity_rate = Rat(34, 100)
    /\ response.feasibility_report.electricity_rate_eur_per_kwh = Rat(34, 100)
    /\ RLt(Zero, financial_analysis_dict.electricity_savings_eur)

(* What a path answers when the fetch gave None: routes.py line 181,       *)
(* routes.py line 201 (the loop sleeps and goes on), electricity_price.py   *)
(* line 139                                                                 *)
result_of_failed_fetch(path) ==
    CASE path = "live"     -> "503"
      [] path = "periodic" -> "sleep"
      [] path = "api"      -> "False"

(* C28: whenever fetch_live_electricity_price returns None (the step of a   *)
(* fetching path that starts idle and has no price to write) the stored     *)
(* electricity price is left unchanged on every path: update_price_from_api *)
(* returns False, the updater thread skips the write of that cycle and      *)
(* goes on looping, the update-live endpoint answers 503; none of them      *)
(* opens the config file.                                                   *)
C28_FailedFetchKeepsPrice ==
    [][\A path \in UpdatePaths \ {"manual"} :
          (/\ price_update[path].pc = "idle"
           /\ price_update'[path] # price_update[path]
           /\ IsNone(price_update'[path].new_price)) =>
              /\ electricity_price_config' = electricity_price_config
              /\ price_update'[path] = NoUpdate(result_of_failed_fetch(path))]_vars

(* The three paths have each met a failed fetch, and the price the manual   *)
(* endpoint stored is still the stored one.                                 *)
C28_Witness ==
    /\ price_update["live"].result = "503"
    /\ price_update["api"].result = "False"
    /\ price_update["periodic"] = NoUpdate("sleep")
    /\ price_update["manual"].result = "200"
    /\ electricity_price_config = Zero

(* The paths inside update_electricity_price, between open and json.dump *)
WritingPaths == {path \in UpdatePaths : price_update[path].pc = "writing"}

(* What get_electricity_price gave for the content an update replaced:     *)
(* lines 16 and 21, the fallback when there was no file                     *)
price_stored_before(path) ==
    IF IsNone(price_update[path].replaced)
    THEN Rat(34, 100)
    ELSE price_update[path].replaced

(* The prices a read next to the running updates may give: what each       *)
(* update replaced, what each update is writing, and the content of a file  *)
(* that is whole                                                            *)
prices_before_or_written ==
    {price_stored_before(path) :
         path \in {p \in WritingPaths : price_update[p].replaced # Truncated}}
    \cup {price_update[path].new_price : path \in WritingPaths}
    \cup (IF electricity_price_config = Truncated THEN {} ELSE {get_electricity_price})

(* C27: a get_electricity_price call that runs while an                     *)
(* update_electricity_price call is between its open and its dump returns   *)
(* the price stored before the update or the price being written, never a   *)
(* third value.  The read of the model is the one calculate_roi makes.      *)
C27_ReadBeforeOrWritten ==
    [][(pc = "analyze_roi" /\ pc' = "analyze_update" /\ WritingPaths # {}) =>
           financial_analysis_dict'.locals.electricity_rate \in prices_before_or_written]_vars

(* The request read 0.34 while the only running update, the live endpoint's, *)
(* had emptied a file holding the price 0 to write 0.35.                    *)
C27_Witness ==
    /\ pc = "analyze_update"
    /\ financial_analysis_dict.locals.electricity_rate = Rat(34, 100)
    /\ electricity_price_config = Truncated
    /\ WritingPaths = {"live"}
    /\ price_update["live"].replaced = Zero
    /\ price_update["live"].new_price = Rat(35, 100)
    /\ price_update["manual"].result = "200"

=============================================================================
